---- MODULE Spec2Model ----
(***************************************************************************)
(* Model of the AD role mapping tool (build_AD_roles).                     *)
(*                                                                         *)
(*   src/src/utils/role_mapper.py       RoleMapper                         *)
(*   src/src/utils/schema_validator.py  SchemaValidator                    *)
(*   src/src/utils/excel_handler.py     ExcelHandler                       *)
(*   src/src/process_input.py           process_input_file                 *)
(*   src/src/utils/process_input.py     process_input                      *)
(*   src/src/AD_oracle.py               process_ad_data, main              *)
(*                                                                         *)
(* A pandas DataFrame is a record [cols, rows]: the set of its column      *)
(* labels and the sequence of its rows (records keyed by column label).    *)
(* A call that can raise returns [raised, value]; raised = "none" means    *)
(* the call returned value.                                                *)
(***************************************************************************)
EXTENDS Integers, Sequences, FiniteSets, TLC

VARIABLES
    \* ---- resolve_group_roles (SpecResolve) ----
    rs_pc,              \* "input" | "resolved" | "resolved_again"
    roles_df,           \* Roles table passed to resolve_group_roles
    group_groups_df,    \* Group_Groups table (parent_group_id, child_group_id)
    group_roles,        \* outcome of resolve_group_roles(roles_df, group_groups_df)
    group_roles_again,  \* outcome of resolve_group_roles(group_roles, group_groups_df)
    \* ---- resolve_user_roles (SpecJoin) ----
    jn_pc,              \* "input" | "joined"
    user_groups_df,     \* User_Groups table (user_id, group_id)
    group_roles_df,     \* closed Group_Roles table, as resolve_group_roles returned it
    user_roles,         \* outcome of resolve_user_roles(user_groups_df, group_roles_df)
    \* ---- validate_relationships (SpecValidate) ----
    vl_pc,              \* "input" | "validated"
    vl_users_df,        \* Users table
    vl_groups_df,       \* Groups table
    vl_user_groups_df,  \* User_Groups table
    vl_group_groups_df, \* Group_Groups table
    cycle_check,        \* result of _has_circular_references: [found, calls]
    relationship_errors, \* outcome of validate_relationships: the error list
    \* ---- one run of an entry point (Spec) ----
    run_pc,             \* position of the run in the code of its entry point
    entry,              \* "main" | "process_ad_data" | "process_input"
    env,                \* which files exist, and whether main got both paths
    workbook,           \* the sheets of the input Excel file
    processed_data,     \* the dict of sheets read_sheets returned, as updated
    role_mappings,      \* what create_role_mappings returned
    validation_errors,  \* the error report of the validation step
    call_log,           \* the pipeline steps invoked so far, in order
    output_written,     \* save_sheets wrote the output file
    exit_code,          \* status returned by main / process_ad_data (-1: none yet)
    raised,             \* the exception that ended the run, or "none"
    \* ---- create_role_mappings (SpecRoles) ----
    cr_pc,              \* "input" | "mapped"
    cr_config,          \* the loaded configuration: ordered (category, names) items
    cr_groups_df,       \* Groups table passed to create_role_mappings
    cr_roles,           \* the Roles table create_role_mappings returned
    \* ---- validate_dataframe (SpecSchema) ----
    vd_pc,              \* "input" | "validated"
    vd_schema,          \* the schema name passed to validate_dataframe
    vd_df,              \* the table passed to validate_dataframe
    vd_errors,          \* the error list validate_dataframe returned
    \* ---- validate_sheets (SpecSheets) ----
    vs_pc,              \* "input" | "validated"
    vs_sheets,          \* the dict of sheets passed to validate_sheets
    vs_report,          \* outcome of validate_sheets: the error report
    \* ---- resolve_group_roles, one step at a time (SpecWalk) ----
    wk_pc,              \* "for" | "call" | "loop" | "return" | "done" | "raised"
    wk_roles_df,        \* Roles table passed to resolve_group_roles
    wk_group_groups_df, \* Group_Groups table passed to resolve_group_roles
    wk_groups,          \* all_groups, the sequence the for loop iterates
    wk_next,            \* index in wk_groups of the group the loop is at
    wk_call,            \* arguments of the pending call: [group_id, visited]
    wk_stack,           \* frames of get_inherited_roles, innermost last
    wk_returned,        \* the set the call that just ended returned
    wk_group_roles,     \* the list group_roles built so far
    wk_processed,       \* processed_groups
    \* ---- the resolution stage and its output (SpecDerive) ----
    out_pc,             \* "pending" | "prepared"
    output_data,        \* the dict of sheets prepared for save_sheets
    \* ---- _populate_group_fields, _populate_user_fields (SpecPopulate) ----
    pp_pc,              \* "input" | "populated"
    pp_sheet,           \* "Groups" | "Users": which table is populated
    pp_df,              \* the table passed to the populate function
    pp_populated,       \* the table the populate function returned
    \* ---- process_directory (SpecDirectory) ----
    dir_pc,             \* "start" | "files" | "done"
    dir_env,            \* whether the configuration file exists
    excel_files,        \* how many *.xlsx files the input directory holds
    dir_outcomes,       \* how process_ad_data ended for each file so far
    dir_status          \* status process_directory returned (-1: none yet)

resolveVars == <<rs_pc, roles_df, group_groups_df, group_roles, group_roles_again>>

joinVars == <<jn_pc, user_groups_df, group_roles_df, user_roles>>

validateVars == <<vl_pc, vl_users_df, vl_groups_df, vl_user_groups_df,
                  vl_group_groups_df, cycle_check, relationship_errors>>

runVars == <<run_pc, entry, env, workbook, processed_data, role_mappings,
             validation_errors, call_log, output_written, exit_code, raised>>

rolesVars == <<cr_pc, cr_config, cr_groups_df, cr_roles>>

schemaVars == <<vd_pc, vd_schema, vd_df, vd_errors>>

sheetsVars == <<vs_pc, vs_sheets, vs_report>>

walkVars == <<wk_pc, wk_roles_df, wk_group_groups_df, wk_groups, wk_next, wk_call,
              wk_stack, wk_returned, wk_group_roles, wk_processed>>

outputVars == <<out_pc, output_data>>

populateVars == <<pp_pc, pp_sheet, pp_df, pp_populated>>

directoryVars == <<dir_pc, dir_env, excel_files, dir_outcomes, dir_status>>

vars == <<resolveVars, joinVars, validateVars, runVars, rolesVars, schemaVars,
          sheetsVars, walkVars, outputVars, populateVars, directoryVars>>

(***************************************************************************)
(* Bounds                                                                  *)
(***************************************************************************)
MaxEdges == 4

MaxJoinEdges == 2

MaxMemberships == 2

MaxGroups == 2

MaxRows == 2

GroupIds == {"G1", "G2", "G3", "G4"}

UserIds == {"U1", "U2"}

(***************************************************************************)
(* Sequences and sets                                                      *)
(***************************************************************************)
Range(s) == {s[i] : i \in 1..Len(s)}

RECURSIVE SetToSeq(_)
\* One enumeration of a finite set (the iteration order of a Python set).
SetToSeq(S) ==
    IF S = {} THEN <<>>
    ELSE LET x == CHOOSE y \in S : TRUE IN <<x>> \o SetToSeq(S \ {x})

RECURSIVE UniqueFrom(_, _, _)
UniqueFrom(s, i, acc) ==
    IF i > Len(s) THEN acc
    ELSE UniqueFrom(s, i + 1,
                    IF s[i] \in Range(acc) THEN acc ELSE Append(acc, s[i]))

\* pandas Series.unique(): first occurrences, in order of appearance.
Unique(s) == UniqueFrom(s, 1, <<>>)

HasDuplicates(s) == \E i, j \in 1..Len(s) : i # j /\ s[i] = s[j]

(***************************************************************************)
(* DataFrames                                                              *)
(***************************************************************************)
\* pd.DataFrame(list_of_dicts): the columns are the keys of the dicts, so an
\* empty list gives a frame with no rows and no columns.
DataFrame(records) ==
    [cols |-> IF records = <<>> THEN {} ELSE DOMAIN records[1],
     rows |-> records]

\* pd.DataFrame(columns=[...]): no rows, the given columns.
EmptyFrame(columns) == [cols |-> columns, rows |-> <<>>]

HasColumn(df, c) == c \in df.cols

\* df[c] as the sequence of its values (callers check HasColumn first;
\* a missing label raises KeyError).
Column(df, c) == [i \in 1..Len(df.rows) |-> df.rows[i][c]]

IsEmpty(df) == df.rows = <<>> \/ df.cols = {}

Returned(v) == [raised |-> "none", value |-> v]

Raised(e) == [raised |-> e, value |-> EmptyFrame({})]

\* The same for a call that returns a list of error messages.
ReturnedErrors(errs) == [raised |-> "none", value |-> errs]

RaisedErrors(e) == [raised |-> e, value |-> <<>>]

(***************************************************************************)
(* RoleMapper.resolve_group_roles                                          *)
(***************************************************************************)
\* Only the parent of the first row found for the child.
ParentGroupsFirstRow(gg_df, g) ==
    LET found == {k \in 1..Len(gg_df.rows) : gg_df.rows[k]["child_group_id"] = g}
    IN IF found = {} THEN {}
       ELSE {gg_df.rows[CHOOSE k \in found : \A j \in found : k <= j]["parent_group_id"]}

\* group_groups_df[group_groups_df["child_group_id"] == g]["parent_group_id"]
ParentGroups(gg_df, g) ==
    {gg_df.rows[i]["parent_group_id"] :
        i \in {k \in 1..Len(gg_df.rows) : gg_df.rows[k]["child_group_id"] = g}}

RoleIdValues(r_df) == Range(Column(r_df, "role_id"))

\* group_groups_df[group_groups_df["parent_group_id"] == g]["child_group_id"]
ChildGroups(gg_df, g) ==
    {gg_df.rows[i]["child_group_id"] :
        i \in {k \in 1..Len(gg_df.rows) : gg_df.rows[k]["parent_group_id"] = g}}

RECURSIVE get_inherited_roles_from_children(_, _, _, _)
\* The walk with the edge direction reversed: roles flow from child to parent.
get_inherited_roles_from_children(r_df, gg_df, group_id, visited) ==
    IF group_id \in visited THEN {}
    ELSE LET visited1 == visited \cup {group_id}
             own == IF group_id \in RoleIdValues(r_df) THEN {group_id} ELSE {}
         IN own \cup UNION {get_inherited_roles_from_children(r_df, gg_df, c, visited1) :
                               c \in ChildGroups(gg_df, group_id)}

RECURSIVE get_inherited_roles(_, _, _, _)
get_inherited_roles(r_df, gg_df, group_id, visited) ==
    IF group_id \in visited THEN {}
    ELSE LET visited1 == visited \cup {group_id}
             own == IF group_id \in RoleIdValues(r_df) THEN {group_id} ELSE {}
         IN own \cup UNION {get_inherited_roles(r_df, gg_df, parent_id, visited1) :
                               parent_id \in ParentGroups(gg_df, group_id)}

\* pd.concat([parent_group_id, child_group_id]).unique()
all_groups(gg_df) ==
    Unique(Column(gg_df, "parent_group_id") \o Column(gg_df, "child_group_id"))

\* The rows for one group with its own role appended once more after the
\* inherited ones (direct assignments added without deduplication).
GroupRoleRowsDirectAgain(r_df, group_id, role_ids) ==
    LET kept == SetToSeq({r \in role_ids : r \in RoleIdValues(r_df)})
        rows == [i \in 1..Len(kept) |-> [group_id |-> group_id, role_id |-> kept[i]]]
    IN IF group_id \in RoleIdValues(r_df)
       THEN rows \o <<[group_id |-> group_id, role_id |-> group_id]>>
       ELSE rows

\* The rows appended for one group: one per inherited role that is a role_id.
GroupRoleRows(r_df, group_id, role_ids) ==
    LET kept == SetToSeq({r \in role_ids : r \in RoleIdValues(r_df)})
    IN [i \in 1..Len(kept) |-> [group_id |-> group_id, role_id |-> kept[i]]]

RECURSIVE ResolveLoop(_, _, _, _, _, _)
\* for group_id in all_groups: ... (lines 215-230)
ResolveLoop(r_df, gg_df, groups, i, rows, processed_groups) ==
    IF i > Len(groups) THEN rows
    ELSE IF groups[i] \in processed_groups
         THEN ResolveLoop(r_df, gg_df, groups, i + 1, rows, processed_groups)
         ELSE ResolveLoop(r_df, gg_df, groups, i + 1,
                  rows \o GroupRoleRows(r_df, groups[i],
                              get_inherited_roles(r_df, gg_df, groups[i], {})),
                  processed_groups \cup {groups[i]})

resolve_group_roles(r_df, gg_df) ==
    IF ~HasColumn(gg_df, "parent_group_id") \/ ~HasColumn(gg_df, "child_group_id")
    THEN Raised("KeyError")
    ELSE IF all_groups(gg_df) # <<>> /\ ~HasColumn(r_df, "role_id")
    THEN Raised("KeyError")    \* roles_df["role_id"] on a frame without columns
    ELSE Returned(DataFrame(ResolveLoop(r_df, gg_df, all_groups(gg_df), 1, <<>>, {})))

(***************************************************************************)
(* Inputs of the resolution                                                *)
(***************************************************************************)
EdgePairs == GroupIds \X GroupIds

EdgeRow(e) == [parent_group_id |-> e[1], child_group_id |-> e[2]]

\* A Group_Groups table holding the edges of E, one row each (plus a repeat
\* of its first row when dup), with its two columns present even when empty.
GroupGroupsFrame(E, dup) ==
    LET es == SetToSeq(E)
        rs == [i \in 1..Len(es) |-> EdgeRow(es[i])]
    IN [cols |-> {"parent_group_id", "child_group_id"},
        rows |-> IF dup /\ rs # <<>> THEN rs \o <<rs[1]>> ELSE rs]

\* The Roles table built from the role-eligible groups S: role_id = group_id
\* (role_mapper.py:118-123), and no columns at all when S is empty (:139).
RolesFrame(S) ==
    LET ids == SetToSeq(S)
    IN DataFrame([i \in 1..Len(ids) |-> [role_id |-> ids[i]]])

\* The variables of a component that a specification does not exercise.
IdleResolve ==
    /\ rs_pc = "idle"
    /\ roles_df = EmptyFrame({})
    /\ group_groups_df = EmptyFrame({})
    /\ group_roles = Returned(EmptyFrame({}))
    /\ group_roles_again = Returned(EmptyFrame({}))

IdleJoin ==
    /\ jn_pc = "idle"
    /\ user_groups_df = EmptyFrame({})
    /\ group_roles_df = EmptyFrame({})
    /\ user_roles = Returned(EmptyFrame({}))

IdleValidate ==
    /\ vl_pc = "idle"
    /\ vl_users_df = EmptyFrame({})
    /\ vl_groups_df = EmptyFrame({})
    /\ vl_user_groups_df = EmptyFrame({})
    /\ vl_group_groups_df = EmptyFrame({})
    /\ cycle_check = [found |-> FALSE, calls |-> 0]
    /\ relationship_errors = ReturnedErrors(<<>>)

\* The sheet names of a workbook (excel_handler.py:170-178).
SheetNames ==
    {"Users", "Groups", "Roles", "User_Groups", "Group_Groups", "User_Roles",
     "Group_Roles"}

\* A workbook none of whose sheets has a row.
NoWorkbook == [s \in SheetNames |-> EmptyFrame({})]

IdleRun ==
    /\ run_pc = "idle"
    /\ entry = "none"
    /\ env = [input_exists |-> FALSE, builtin_groups_file |-> "none",
              logs_dir_exists |-> FALSE, args_complete |-> FALSE]
    /\ workbook = NoWorkbook
    /\ processed_data = NoWorkbook
    /\ role_mappings = EmptyFrame({})
    /\ validation_errors = <<>>
    /\ call_log = <<>>
    /\ output_written = FALSE
    /\ exit_code = -1
    /\ raised = "none"

IdleRoles ==
    /\ cr_pc = "idle"
    /\ cr_config = <<>>
    /\ cr_groups_df = EmptyFrame({})
    /\ cr_roles = EmptyFrame({})

IdleSchema ==
    /\ vd_pc = "idle"
    /\ vd_schema = "none"
    /\ vd_df = EmptyFrame({})
    /\ vd_errors = <<>>

IdleSheets ==
    /\ vs_pc = "idle"
    /\ vs_sheets = NoWorkbook
    /\ vs_report = ReturnedErrors(<<>>)

IdleWalk ==
    /\ wk_pc = "idle"
    /\ wk_roles_df = EmptyFrame({})
    /\ wk_group_groups_df = EmptyFrame({})
    /\ wk_groups = <<>>
    /\ wk_next = 0
    /\ wk_call = [group_id |-> "none", visited |-> {}]
    /\ wk_stack = <<>>
    /\ wk_returned = {}
    /\ wk_group_roles = <<>>
    /\ wk_processed = {}

NoOutput == [s \in {} |-> EmptyFrame({})]

IdleOutput ==
    /\ out_pc = "idle"
    /\ output_data = NoOutput

IdlePopulate ==
    /\ pp_pc = "idle"
    /\ pp_sheet = "none"
    /\ pp_df = EmptyFrame({})
    /\ pp_populated = EmptyFrame({})

IdleDirectory ==
    /\ dir_pc = "idle"
    /\ dir_env = [builtin_groups_file_exists |-> FALSE]
    /\ excel_files = 0
    /\ dir_outcomes = <<>>
    /\ dir_status = -1

InitResolve ==
    /\ IdleWalk
    /\ IdleOutput
    /\ IdlePopulate
    /\ IdleDirectory
    /\ IdleJoin
    /\ IdleValidate
    /\ IdleRun
    /\ IdleRoles
    /\ IdleSchema
    /\ IdleSheets
    /\ rs_pc = "input"
    /\ \E S \in SUBSET GroupIds : roles_df = RolesFrame(S)
    /\ \E E \in SUBSET EdgePairs, dup \in BOOLEAN :
           /\ Cardinality(E) <= MaxEdges
           /\ group_groups_df = GroupGroupsFrame(E, dup)
    /\ group_roles = Returned(EmptyFrame({}))
    /\ group_roles_again = Returned(EmptyFrame({}))

\* group_roles = mapper.resolve_group_roles(roles_df, group_groups_df)
ResolveGroupRoles ==
    /\ rs_pc = "input"
    /\ group_roles' = resolve_group_roles(roles_df, group_groups_df)
    /\ rs_pc' = "resolved"
    /\ UNCHANGED <<roles_df, group_groups_df, group_roles_again>>
    /\ UNCHANGED <<joinVars, validateVars, runVars, rolesVars, schemaVars,
                 sheetsVars,
                 walkVars, outputVars, populateVars, directoryVars>>

\* The closed table fed back as the table that carries the role_id column.
ResolveAgain ==
    /\ rs_pc = "resolved"
    /\ group_roles.raised = "none"
    /\ group_roles_again' = resolve_group_roles(group_roles.value, group_groups_df)
    /\ rs_pc' = "resolved_again"
    /\ UNCHANGED <<roles_df, group_groups_df, group_roles>>
    /\ UNCHANGED <<joinVars, validateVars, runVars, rolesVars, schemaVars,
                 sheetsVars,
                 walkVars, outputVars, populateVars, directoryVars>>

NextResolve == ResolveGroupRoles \/ ResolveAgain

SpecResolve == InitResolve /\ [][NextResolve]_vars

(***************************************************************************)
(* Reference notions the properties are stated with                        *)
(***************************************************************************)
EdgeSet(gg_df) ==
    {<<gg_df.rows[i]["parent_group_id"], gg_df.rows[i]["child_group_id"]>> :
        i \in 1..Len(gg_df.rows)}

NodesOf(E) == {e[1] : e \in E} \cup {e[2] : e \in E}

RECURSIVE UpClosure(_, _)
\* Least set containing S and closed under child -> parent links of E.
UpClosure(E, S) ==
    LET T == S \cup {e[1] : e \in {f \in E : f[2] \in S}}
    IN IF T = S THEN S ELSE UpClosure(E, T)

AncestorsOrSelf(E, g) == UpClosure(E, {g})

ProperAncestors(E, g) == UpClosure(E, {e[1] : e \in {f \in E : f[2] = g}})

Acyclic(E) == \A g \in NodesOf(E) : g \notin ProperAncestors(E, g)

PairsOf(gr_df) ==
    {<<gr_df.rows[i]["group_id"], gr_df.rows[i]["role_id"]>> : i \in 1..Len(gr_df.rows)}

ChainEdges == {<<"G1", "G2">>, <<"G2", "G3">>}

ChainClosure ==
    {<<"G1", "G1">>, <<"G2", "G1">>, <<"G2", "G2">>, <<"G3", "G1">>, <<"G3", "G2">>}

DiamondEdges == {<<"G1", "G2">>, <<"G1", "G3">>, <<"G2", "G4">>, <<"G3", "G4">>}

(***************************************************************************)
(* Properties of resolve_group_roles                                       *)
(***************************************************************************)
\* C1: on an acyclic hierarchy, for every group G of a hierarchy edge the
\* result holds (G, R) exactly when R is a role and R is G or an ancestor of
\* G; the chain G1->G2->G3 with roles G1, G2 gives exactly the five pairs.
C1_ClosureIsAncestorRoles ==
    (rs_pc # "input" /\ Acyclic(EdgeSet(group_groups_df))) =>
        /\ \A G \in NodesOf(EdgeSet(group_groups_df)), R \in GroupIds :
              (<<G, R>> \in PairsOf(group_roles.value))
                  <=> (/\ R \in RoleIdValues(roles_df)
                       /\ R \in AncestorsOrSelf(EdgeSet(group_groups_df), G))
        /\ (EdgeSet(group_groups_df) = ChainEdges /\ RoleIdValues(roles_df) = {"G1", "G2"})
              => PairsOf(group_roles.value) = ChainClosure

C1_Witness ==
    /\ rs_pc = "resolved"
    /\ EdgeSet(group_groups_df) = ChainEdges
    /\ RoleIdValues(roles_df) = {"G1", "G2"}
    /\ group_roles.raised = "none"
    /\ PairsOf(group_roles.value) = ChainClosure

\* C2: every direct pair (a role-eligible group with its own role) is in the
\* resolved table, also for a role-eligible group that is in no hierarchy edge.
C2_ClosureSupersetOfDirect ==
    rs_pc # "input" =>
        \A r \in RoleIdValues(roles_df) : <<r, r>> \in PairsOf(group_roles.value)

\* C3: on an acyclic hierarchy, resolving again from the closed table returns
\* the same set of pairs.
C3_ClosureIdempotent ==
    (rs_pc = "resolved_again" /\ Acyclic(EdgeSet(group_groups_df))) =>
        /\ group_roles_again.raised = "none"
        /\ PairsOf(group_roles_again.value) = PairsOf(group_roles.value)

\* C4: the resolved table never holds the same (group_id, role_id) row twice;
\* in the diamond G1->G2, G1->G3, G2->G4, G3->G4 with G1 a role, G4 gets G1
\* exactly once.
C4_NoDuplicatePairs ==
    rs_pc # "input" =>
        /\ ~HasDuplicates(group_roles.value.rows)
        /\ (EdgeSet(group_groups_df) = DiamondEdges /\ "G1" \in RoleIdValues(roles_df))
              => Cardinality({i \in 1..Len(group_roles.value.rows) :
                                 group_roles.value.rows[i]
                                     = [group_id |-> "G4", role_id |-> "G1"]}) = 1

C4_Witness ==
    /\ rs_pc = "resolved"
    /\ EdgeSet(group_groups_df) = DiamondEdges
    /\ "G1" \in RoleIdValues(roles_df)
    /\ <<"G4", "G1">> \in PairsOf(group_roles.value)
    /\ Len(group_groups_df.rows) = 5

(***************************************************************************)
(* RoleMapper.resolve_user_roles                                           *)
(***************************************************************************)
\* The merge without the filter on group_id (a cross product of the rows).
MergeMatchesAnyGroup(left_row, right_df, j) ==
    [k \in 1..Len(right_df.rows) |->
        [user_id |-> left_row["user_id"], role_id |-> right_df.rows[k]["role_id"]]]

RECURSIVE MergeMatches(_, _, _)
\* The rows of the inner merge that one left row gives, projected to
\* (user_id, role_id): one per right row with the same group_id.
MergeMatches(left_row, right_df, j) ==
    IF j > Len(right_df.rows) THEN <<>>
    ELSE (IF right_df.rows[j]["group_id"] = left_row["group_id"]
          THEN <<[user_id |-> left_row["user_id"],
                  role_id |-> right_df.rows[j]["role_id"]]>>
          ELSE <<>>)
         \o MergeMatches(left_row, right_df, j + 1)

RECURSIVE MergeRows(_, _, _)
MergeRows(left_df, right_df, i) ==
    IF i > Len(left_df.rows) THEN <<>>
    ELSE MergeMatches(left_df.rows[i], right_df, 1) \o MergeRows(left_df, right_df, i + 1)

\* The merge and the projection without drop_duplicates().
resolve_user_roles_keep_duplicates(ug_df, gr_df) ==
    IF ~HasColumn(ug_df, "group_id") \/ ~HasColumn(gr_df, "group_id")
    THEN Raised("KeyError")
    ELSE IF ~HasColumn(ug_df, "user_id") \/ ~HasColumn(gr_df, "role_id")
    THEN Raised("KeyError")
    ELSE Returned([cols |-> {"user_id", "role_id"},
                   rows |-> MergeRows(ug_df, gr_df, 1)])

\* pd.merge(..., on group_id, how="inner")[["user_id", "role_id"]].drop_duplicates()
resolve_user_roles(ug_df, gr_df) ==
    IF ~HasColumn(ug_df, "group_id") \/ ~HasColumn(gr_df, "group_id")
    THEN Raised("KeyError")    \* merge key missing in one of the frames
    ELSE IF ~HasColumn(ug_df, "user_id") \/ ~HasColumn(gr_df, "role_id")
    THEN Raised("KeyError")    \* projected column missing
    ELSE Returned([cols |-> {"user_id", "role_id"},
                   rows |-> Unique(MergeRows(ug_df, gr_df, 1))])

MembershipPairs == UserIds \X GroupIds

MembershipRow(m) == [user_id |-> m[1], group_id |-> m[2]]

UserGroupsFrame(M) ==
    LET ms == SetToSeq(M)
    IN [cols |-> {"user_id", "group_id"},
        rows |-> [i \in 1..Len(ms) |-> MembershipRow(ms[i])]]

\* The closed tables resolve_group_roles returns on small inputs.
ClosedTables ==
    {resolve_group_roles(RolesFrame(S), GroupGroupsFrame(E, FALSE)).value :
        <<S, E>> \in {p \in (SUBSET GroupIds) \X (SUBSET EdgePairs) :
                        /\ Cardinality(p[2]) <= MaxJoinEdges
                        /\ resolve_group_roles(RolesFrame(p[1]),
                               GroupGroupsFrame(p[2], FALSE)).raised = "none"}}

InitJoin ==
    /\ IdleWalk
    /\ IdleOutput
    /\ IdlePopulate
    /\ IdleDirectory
    /\ IdleResolve
    /\ IdleValidate
    /\ IdleRun
    /\ IdleRoles
    /\ IdleSchema
    /\ IdleSheets
    /\ jn_pc = "input"
    /\ \E M \in SUBSET MembershipPairs :
           /\ Cardinality(M) <= MaxMemberships
           /\ user_groups_df = UserGroupsFrame(M)
    /\ group_roles_df \in ClosedTables
    /\ user_roles = Returned(EmptyFrame({}))

\* user_roles = mapper.resolve_user_roles(user_groups_df, group_roles_df)
ResolveUserRoles ==
    /\ jn_pc = "input"
    /\ user_roles' = resolve_user_roles(user_groups_df, group_roles_df)
    /\ jn_pc' = "joined"
    /\ UNCHANGED <<user_groups_df, group_roles_df>>
    /\ UNCHANGED <<resolveVars, validateVars, runVars, rolesVars, schemaVars,
                 sheetsVars,
                 walkVars, outputVars, populateVars, directoryVars>>

NextJoin == ResolveUserRoles

SpecJoin == InitJoin /\ [][NextJoin]_vars

MembershipSet(ug_df) ==
    {<<ug_df.rows[i]["user_id"], ug_df.rows[i]["group_id"]>> : i \in 1..Len(ug_df.rows)}

UserRolePairs(ur_df) ==
    {<<ur_df.rows[i]["user_id"], ur_df.rows[i]["role_id"]>> : i \in 1..Len(ur_df.rows)}

\* The inner equi-join of memberships and group-role pairs on the group.
JoinOf(M, GR) ==
    {<<u, r>> \in UserIds \X GroupIds :
        \E g \in GroupIds : <<u, g>> \in M /\ <<g, r>> \in GR}

\* C10: resolve_user_roles returns exactly the pairs (u, r) for which some
\* group g has (u, g) in the memberships and (g, r) in the closed table; a
\* user whose groups hold no role yields no row.
C10_JoinIsInnerEquiJoin ==
    jn_pc = "joined" =>
        /\ user_roles.raised = "none"
        /\ UserRolePairs(user_roles.value)
              = JoinOf(MembershipSet(user_groups_df), PairsOf(group_roles_df))

\* C11: a table returned by resolve_user_roles holds no (user_id, role_id)
\* pair twice; a user in several groups that confer the same role gets one
\* row for that role.
C11_NoDuplicateUserRoles ==
    (jn_pc = "joined" /\ user_roles.raised = "none") =>
        /\ ~HasDuplicates(user_roles.value.rows)
        /\ Len(user_roles.value.rows)
              = Cardinality(JoinOf(MembershipSet(user_groups_df),
                                   PairsOf(group_roles_df)))

\* U1 is a member of G1 and of its child G2, which both confer role G1.
C11_Witness ==
    /\ jn_pc = "joined"
    /\ MembershipSet(user_groups_df) = {<<"U1", "G1">>, <<"U1", "G2">>}
    /\ PairsOf(group_roles_df) = {<<"G1", "G1">>, <<"G2", "G1">>}
    /\ Len(MergeRows(user_groups_df, group_roles_df, 1)) = 2
    /\ user_roles = Returned([cols |-> {"user_id", "role_id"},
                              rows |-> <<[user_id |-> "U1", role_id |-> "G1"]>>])

(***************************************************************************)
(* SchemaValidator._has_circular_references                                *)
(***************************************************************************)
\* graph: parent -> set of children, keyed in order of first appearance.
GraphKeys(gg_df) == Unique(Column(gg_df, "parent_group_id"))

GraphOf(gg_df) ==
    [parent \in Range(GraphKeys(gg_df)) |-> ChildGroups(gg_df, parent)]

\* The iteration orders a Python set of group ids can have: order is a
\* permutation of GroupIds and a set is iterated in the order it gives.
IterationOrders ==
    {o \in [1..Cardinality(GroupIds) -> GroupIds] :
        \A i, j \in 1..Cardinality(GroupIds) : i # j => o[i] # o[j]}

RECURSIVE OrderedFrom(_, _, _)
OrderedFrom(S, order, i) ==
    IF i > Len(order) THEN <<>>
    ELSE (IF order[i] \in S THEN <<order[i]>> ELSE <<>>) \o OrderedFrom(S, order, i + 1)

Ordered(S, order) == OrderedFrom(S, order, 1)

RECURSIVE has_cycle(_, _, _, _, _)
RECURSIVE VisitNeighbors(_, _, _, _, _, _, _)

\* The neighbour loop that takes every visited neighbour for a cycle,
\* whether or not it is still on the current path.
VisitNeighborsVisitedIsCycle(graph, order, neighbors, i, visited, path, calls) ==
    IF i > Len(neighbors)
    THEN [found |-> FALSE, visited |-> visited, path |-> path, calls |-> calls]
    ELSE IF neighbors[i] \notin visited
    THEN LET r == has_cycle(graph, order, neighbors[i], visited, path)
         IN IF r.found
            THEN [r EXCEPT !.calls = calls + r.calls]
            ELSE VisitNeighbors(graph, order, neighbors, i + 1,
                                r.visited, r.path, calls + r.calls)
    ELSE [found |-> TRUE, visited |-> visited, path |-> path, calls |-> calls]

\* The neighbour loop without the check of the current path.
VisitNeighborsNoPathCheck(graph, order, neighbors, i, visited, path, calls) ==
    IF i > Len(neighbors)
    THEN [found |-> FALSE, visited |-> visited, path |-> path, calls |-> calls]
    ELSE IF neighbors[i] \notin visited
    THEN LET r == has_cycle(graph, order, neighbors[i], visited, path)
         IN IF r.found
            THEN [r EXCEPT !.calls = calls + r.calls]
            ELSE VisitNeighbors(graph, order, neighbors, i + 1,
                                r.visited, r.path, calls + r.calls)
    ELSE VisitNeighbors(graph, order, neighbors, i + 1, visited, path, calls)

\* for neighbor in graph[node]: ... (lines 450-455); visited and path are the
\* two sets shared by all calls, calls counts the has_cycle invocations.
VisitNeighbors(graph, order, neighbors, i, visited, path, calls) ==
    IF i > Len(neighbors)
    THEN [found |-> FALSE, visited |-> visited, path |-> path, calls |-> calls]
    ELSE IF neighbors[i] \notin visited
    THEN LET r == has_cycle(graph, order, neighbors[i], visited, path)
         IN IF r.found
            THEN [r EXCEPT !.calls = calls + r.calls]
            ELSE VisitNeighbors(graph, order, neighbors, i + 1,
                                r.visited, r.path, calls + r.calls)
    ELSE IF neighbors[i] \in path
    THEN [found |-> TRUE, visited |-> visited, path |-> path, calls |-> calls]
    ELSE VisitNeighbors(graph, order, neighbors, i + 1, visited, path, calls)

has_cycle(graph, order, node, visited, path) ==
    LET visited1 == visited \cup {node}
        path1 == path \cup {node}
    IN IF node \in DOMAIN graph
       THEN LET r == VisitNeighbors(graph, order, Ordered(graph[node], order), 1,
                                    visited1, path1, 1)
            IN IF r.found THEN r ELSE [r EXCEPT !.path = r.path \ {node}]
       ELSE [found |-> FALSE, visited |-> visited1, path |-> path1 \ {node},
             calls |-> 1]

RECURSIVE CheckEachNode(_, _, _, _, _, _, _)
\* for node in graph: if node not in visited: if has_cycle(...): return True
CheckEachNode(graph, order, keys, i, visited, path, calls) ==
    IF i > Len(keys) THEN [found |-> FALSE, calls |-> calls]
    ELSE IF keys[i] \notin visited
    THEN LET r == has_cycle(graph, order, keys[i], visited, path)
         IN IF r.found
            THEN [found |-> TRUE, calls |-> calls + r.calls]
            ELSE CheckEachNode(graph, order, keys, i + 1,
                               r.visited, r.path, calls + r.calls)
    ELSE CheckEachNode(graph, order, keys, i + 1, visited, path, calls)

has_circular_references(gg_df, order) ==
    IF IsEmpty(gg_df) THEN [found |-> FALSE, calls |-> 0]
    ELSE CheckEachNode(GraphOf(gg_df), order, GraphKeys(gg_df), 1, {}, {}, 0)

(***************************************************************************)
(* SchemaValidator.validate_relationships                                  *)
(***************************************************************************)
ErrorIf(cond, kind, ids) == IF cond THEN <<[kind |-> kind, ids |-> ids]>> ELSE <<>>

\* The membership errors with one error for each offending user_id.
MembershipErrorsPerValue(u_df, g_df, ug_df) ==
    (IF HasColumn(ug_df, "user_id")
     THEN LET invalid_users == SetToSeq(Range(Column(ug_df, "user_id"))
                                           \ Range(Column(u_df, "user_id")))
          IN [i \in 1..Len(invalid_users) |->
                 [kind |-> "Invalid user_ids in User_Groups",
                  ids |-> {invalid_users[i]}]]
     ELSE <<>>)
    \o
    (IF HasColumn(ug_df, "group_id")
     THEN LET invalid_groups == Range(Column(ug_df, "group_id"))
                                   \ Range(Column(g_df, "group_id"))
          IN ErrorIf(invalid_groups # {}, "Invalid group_ids in User_Groups", invalid_groups)
     ELSE <<>>)

\* The errors of the user_id / group_id columns of User_Groups (lines 396-408).
MembershipErrors(u_df, g_df, ug_df) ==
    (IF HasColumn(ug_df, "user_id")
     THEN LET invalid_users == Range(Column(ug_df, "user_id"))
                                  \ Range(Column(u_df, "user_id"))
          IN ErrorIf(invalid_users # {}, "Invalid user_ids in User_Groups", invalid_users)
     ELSE <<>>)
    \o
    (IF HasColumn(ug_df, "group_id")
     THEN LET invalid_groups == Range(Column(ug_df, "group_id"))
                                   \ Range(Column(g_df, "group_id"))
          IN ErrorIf(invalid_groups # {}, "Invalid group_ids in User_Groups", invalid_groups)
     ELSE <<>>)

\* The errors of the hierarchy table (lines 410-426).
HierarchyErrors(g_df, gg_df, order) ==
    IF IsEmpty(gg_df) THEN <<>>
    ELSE LET parent_groups == Range(Column(gg_df, "parent_group_id"))
             child_groups == Range(Column(gg_df, "child_group_id"))
             groups == Range(Column(g_df, "group_id"))
         IN ErrorIf(parent_groups \ groups # {}, "Invalid parent_group_ids",
                    parent_groups \ groups)
            \o ErrorIf(child_groups \ groups # {}, "Invalid child_group_ids",
                       child_groups \ groups)
            \o ErrorIf(has_circular_references(gg_df, order).found,
                       "Circular reference detected in group relationships", {})

validate_relationships(u_df, g_df, ug_df, gg_df, order) ==
    IF HasColumn(ug_df, "user_id") /\ ~HasColumn(u_df, "user_id")
    THEN RaisedErrors("KeyError")
    ELSE IF HasColumn(ug_df, "group_id") /\ ~HasColumn(g_df, "group_id")
    THEN RaisedErrors("KeyError")
    ELSE IF ~IsEmpty(gg_df)
            /\ (\/ ~HasColumn(gg_df, "parent_group_id")
                \/ ~HasColumn(gg_df, "child_group_id")
                \/ ~HasColumn(g_df, "group_id"))
    THEN RaisedErrors("KeyError")
    ELSE ReturnedErrors(MembershipErrors(u_df, g_df, ug_df)
                        \o HierarchyErrors(g_df, gg_df, order))

UsersFrame(S) ==
    LET ids == SetToSeq(S)
    IN [cols |-> {"user_id"}, rows |-> [i \in 1..Len(ids) |-> [user_id |-> ids[i]]]]

GroupsFrame(S) ==
    LET ids == SetToSeq(S)
    IN [cols |-> {"group_id"}, rows |-> [i \in 1..Len(ids) |-> [group_id |-> ids[i]]]]

InitValidate ==
    /\ IdleWalk
    /\ IdleOutput
    /\ IdlePopulate
    /\ IdleDirectory
    /\ IdleResolve
    /\ IdleJoin
    /\ IdleRun
    /\ IdleRoles
    /\ IdleSchema
    /\ IdleSheets
    /\ vl_pc = "input"
    /\ vl_users_df = UsersFrame(UserIds)
    /\ vl_groups_df \in {GroupsFrame(GroupIds), GroupsFrame(GroupIds \ {"G4"})}
    /\ vl_user_groups_df \in {UserGroupsFrame({<<"U1", "G1">>}),
                              UserGroupsFrame({<<"U3", "G4">>, <<"U4", "G4">>})}
    /\ \E E \in SUBSET EdgePairs :
           /\ Cardinality(E) <= MaxEdges
           /\ vl_group_groups_df = GroupGroupsFrame(E, FALSE)
    /\ cycle_check = [found |-> FALSE, calls |-> 0]
    /\ relationship_errors = ReturnedErrors(<<>>)

\* errors = validator.validate_relationships(users, groups, user_groups,
\* group_groups); the sets of children are iterated in any order.
ValidateRelationships ==
    /\ vl_pc = "input"
    /\ \E order \in IterationOrders :
          /\ relationship_errors' = validate_relationships(vl_users_df, vl_groups_df,
                                        vl_user_groups_df, vl_group_groups_df, order)
          /\ cycle_check' = has_circular_references(vl_group_groups_df, order)
    /\ vl_pc' = "validated"
    /\ UNCHANGED <<vl_users_df, vl_groups_df, vl_user_groups_df, vl_group_groups_df>>
    /\ UNCHANGED <<resolveVars, joinVars, runVars, rolesVars, schemaVars,
                 sheetsVars,
                 walkVars, outputVars, populateVars, directoryVars>>

NextValidate == ValidateRelationships

SpecValidate == InitValidate /\ [][NextValidate]_vars

CycleErrors(errs) ==
    {i \in 1..Len(errs) :
        errs[i].kind = "Circular reference detected in group relationships"}

TwoCycles == {<<"G1", "G2">>, <<"G2", "G1">>, <<"G3", "G4">>, <<"G4", "G3">>}

\* C5: for a non-empty hierarchy whose parent->child graph has a cycle,
\* validate_relationships reports a cycle error, and exactly one.
C5_CycleReportedOnce ==
    (vl_pc = "validated" /\ ~Acyclic(EdgeSet(vl_group_groups_df))) =>
        /\ relationship_errors.raised = "none"
        /\ Cardinality(CycleErrors(relationship_errors.value)) = 1

C5_Witness ==
    /\ vl_pc = "validated"
    /\ EdgeSet(vl_group_groups_df) = TwoCycles
    /\ Cardinality(CycleErrors(relationship_errors.value)) = 1

\* C6: on an acyclic hierarchy the cycle check terminates (it enters each
\* node at most once) and reports no cycle, diamonds included.
C6_AcyclicNotReported ==
    (vl_pc = "validated" /\ Acyclic(EdgeSet(vl_group_groups_df))) =>
        /\ relationship_errors.raised = "none"
        /\ CycleErrors(relationship_errors.value) = {}
        /\ ~cycle_check.found
        /\ cycle_check.calls <= Cardinality(NodesOf(EdgeSet(vl_group_groups_df)))

C6_Witness ==
    /\ vl_pc = "validated"
    /\ EdgeSet(vl_group_groups_df) = DiamondEdges
    /\ ~cycle_check.found
    /\ cycle_check.calls = 4
    /\ CycleErrors(relationship_errors.value) = {}

\* The errors of one kind in a report.
ErrorsOfKind(errs, kind) == {i \in 1..Len(errs) : errs[i].kind = kind}

\* A column with the offending values bad is reported by one error of the
\* kind that lists them all, and not reported when there is none.
ReportedOnce(errs, kind, bad) ==
    IF bad = {} THEN ErrorsOfKind(errs, kind) = {}
    ELSE /\ Cardinality(ErrorsOfKind(errs, kind)) = 1
         /\ \A i \in ErrorsOfKind(errs, kind) : errs[i].ids = bad

\* The ids of a column of the validated tables.
IdsOf(df, col) == {df.rows[i][col] : i \in 1..Len(df.rows)}

DanglingUsers == IdsOf(vl_user_groups_df, "user_id") \ IdsOf(vl_users_df, "user_id")

DanglingMemberGroups ==
    IdsOf(vl_user_groups_df, "group_id") \ IdsOf(vl_groups_df, "group_id")

DanglingParents ==
    IdsOf(vl_group_groups_df, "parent_group_id") \ IdsOf(vl_groups_df, "group_id")

DanglingChildren ==
    IdsOf(vl_group_groups_df, "child_group_id") \ IdsOf(vl_groups_df, "group_id")

\* C15: validate_relationships reports a dangling reference exactly when a
\* membership user_id, a membership group_id, a hierarchy parent or a
\* hierarchy child is unknown, with one error per violated column that lists
\* all its offending values, and reports nothing when every reference
\* resolves and the hierarchy is acyclic.
C15_DanglingReferencesPerColumn ==
    vl_pc = "validated" =>
        LET errs == relationship_errors.value
        IN /\ relationship_errors.raised = "none"
           /\ ReportedOnce(errs, "Invalid user_ids in User_Groups", DanglingUsers)
           /\ ReportedOnce(errs, "Invalid group_ids in User_Groups", DanglingMemberGroups)
           /\ ReportedOnce(errs, "Invalid parent_group_ids", DanglingParents)
           /\ ReportedOnce(errs, "Invalid child_group_ids", DanglingChildren)
           /\ (/\ DanglingUsers = {} /\ DanglingMemberGroups = {}
               /\ DanglingParents = {} /\ DanglingChildren = {}
               /\ Acyclic(EdgeSet(vl_group_groups_df)))
              => errs = <<>>

\* Two memberships of unknown users in the unknown group G4, which is also
\* the parent in two hierarchy rows.
C15_Witness ==
    /\ vl_pc = "validated"
    /\ DanglingUsers = {"U3", "U4"}
    /\ DanglingMemberGroups = {"G4"}
    /\ EdgeSet(vl_group_groups_df) = {<<"G4", "G1">>, <<"G4", "G2">>}
    /\ relationship_errors.value =
          <<[kind |-> "Invalid user_ids in User_Groups", ids |-> {"U3", "U4"}],
            [kind |-> "Invalid group_ids in User_Groups", ids |-> {"G4"}],
            [kind |-> "Invalid parent_group_ids", ids |-> {"G4"}]>>

(***************************************************************************)
(* RoleMapper.create_role_mappings                                         *)
(***************************************************************************)
\* The configuration document, as the ordered (category, names) items of
\* the loaded dict (tests/conftest.py sample_builtin_groups).
group_config ==
    <<[category |-> "BuiltIn_AD_Groups", groups |-> {"Domain Admins"}],
      [category |-> "Original_Role_Groups", groups |-> {"Administrators", "Users"}],
      [category |-> "Exchange_Server_Groups", groups |-> {"Exchange Admins"}]>>

\* self.group_config.get("Original_Role_Groups", [])
original_roles(config) ==
    UNION {config[i].groups :
              i \in {k \in 1..Len(config) : config[k].category = "Original_Role_Groups"}}

\* self.role_groups: every name of every category
role_groups(config) == UNION {config[i].groups : i \in 1..Len(config)}

\* The lookup that keeps the last category listing the name.
CategoryOfLastListed(config, name) ==
    LET hits == {i \in 1..Len(config) : name \in config[i].groups}
    IN IF hits = {} THEN "Unknown"
       ELSE config[CHOOSE i \in hits : \A j \in hits : i >= j].category

\* next((cat for cat, groups in config.items() if name in groups), "Unknown")
CategoryOf(config, name) ==
    LET hits == {i \in 1..Len(config) : name \in config[i].groups}
    IN IF hits = {} THEN "Unknown"
       ELSE config[CHOOSE i \in hits : \A j \in hits : i <= j].category

\* A role record that takes the group's name for its role_id.
RoleRowIdFromName(group, source) ==
    [role_id |-> group["group_name"],
     role_name |-> group["group_name"],
     description |-> IF "description" \in DOMAIN group
                     THEN group["description"]
                     ELSE "Role based on group",
     source |-> source]

\* role_data.append({...}) (lines 118-123, 131-136)
RoleRow(group, source) ==
    [role_id |-> group["group_id"],
     role_name |-> group["group_name"],
     description |-> IF "description" \in DOMAIN group
                     THEN group["description"]
                     ELSE "Role based on group",
     source |-> source]

RECURSIVE OriginalRoleRows(_, _, _)
\* first loop (lines 116-123)
OriginalRoleRows(config, g_df, i) ==
    IF i > Len(g_df.rows) THEN <<>>
    ELSE (IF g_df.rows[i]["group_name"] \in original_roles(config)
          THEN <<RoleRow(g_df.rows[i], "Original_Role_Groups")>>
          ELSE <<>>)
         \o OriginalRoleRows(config, g_df, i + 1)

RECURSIVE OtherRoleRows(_, _, _, _)

\* The second loop without the test of mapped_groups.
OtherRoleRowsIgnoringMapped(config, g_df, mapped_groups, i) ==
    IF i > Len(g_df.rows) THEN <<>>
    ELSE (IF g_df.rows[i]["group_name"] \in role_groups(config)
          THEN <<RoleRow(g_df.rows[i], CategoryOf(config, g_df.rows[i]["group_name"]))>>
          ELSE <<>>)
         \o OtherRoleRows(config, g_df, mapped_groups, i + 1)

\* second loop (lines 126-137)
OtherRoleRows(config, g_df, mapped_groups, i) ==
    IF i > Len(g_df.rows) THEN <<>>
    ELSE (IF /\ g_df.rows[i]["group_name"] \in role_groups(config)
             /\ g_df.rows[i]["group_name"] \notin mapped_groups
          THEN <<RoleRow(g_df.rows[i], CategoryOf(config, g_df.rows[i]["group_name"]))>>
          ELSE <<>>)
         \o OtherRoleRows(config, g_df, mapped_groups, i + 1)

create_role_mappings(config, g_df) ==
    LET first == OriginalRoleRows(config, g_df, 1)
        mapped_groups == {first[i]["role_name"] : i \in 1..Len(first)}
    IN DataFrame(first \o OtherRoleRows(config, g_df, mapped_groups, 1))

(***************************************************************************)
(* Inputs and properties of create_role_mappings                           *)
(***************************************************************************)
\* Group names that configurations list.
ConfiguredNames == {"Administrators", "Domain Admins"}

\* Group names that Groups rows carry: configured names, one in another
\* letter case, and one that no configuration lists.
GroupNames == {"Administrators", "administrators", "Domain Admins", "Custom Group"}

\* The key orders of the configuration documents; the last has no leader
\* category.
CategoryOrders ==
    {<<"BuiltIn_AD_Groups", "Original_Role_Groups", "Exchange_Server_Groups">>,
     <<"Original_Role_Groups", "BuiltIn_AD_Groups", "Exchange_Server_Groups">>,
     <<"BuiltIn_AD_Groups", "Exchange_Server_Groups">>}

Configs ==
    UNION {{[i \in 1..Len(order) |-> [category |-> order[i], groups |-> names[i]]] :
               names \in [1..Len(order) -> SUBSET ConfiguredNames]} :
           order \in CategoryOrders}

GroupIdOf(i) == <<"G1", "G2", "G3", "G4">>[i]

\* Groups tables of at most MaxGroups rows, with or without a description.
GroupsTables ==
    UNION {{[cols |-> {"group_id", "group_name"},
             rows |-> [i \in 1..n |->
                          [group_id |-> GroupIdOf(i), group_name |-> names[i]]]] :
               names \in [1..n -> GroupNames]}
           \cup
           {[cols |-> {"group_id", "group_name", "description"},
             rows |-> [i \in 1..n |->
                          [group_id |-> GroupIdOf(i), group_name |-> names[i],
                           description |-> "Group"]]] :
               names \in [1..n -> GroupNames]} :
           n \in 0..MaxGroups}

InitRoles ==
    /\ IdleWalk
    /\ IdleOutput
    /\ IdlePopulate
    /\ IdleDirectory
    /\ IdleResolve
    /\ IdleJoin
    /\ IdleValidate
    /\ IdleRun
    /\ IdleSchema
    /\ IdleSheets
    /\ cr_pc = "input"
    /\ cr_config \in Configs
    /\ cr_groups_df \in GroupsTables
    /\ cr_roles = EmptyFrame({})

\* roles_df = mapper.create_role_mappings(groups_df)
CreateRoleMappings ==
    /\ cr_pc = "input"
    /\ cr_roles' = create_role_mappings(cr_config, cr_groups_df)
    /\ cr_pc' = "mapped"
    /\ UNCHANGED <<cr_config, cr_groups_df>>
    /\ UNCHANGED <<resolveVars, joinVars, validateVars, runVars, schemaVars,
                   sheetsVars,
                 walkVars, outputVars, populateVars, directoryVars>>

NextRoles == CreateRoleMappings

SpecRoles == InitRoles /\ [][NextRoles]_vars

\* The names a configuration lists under the leader category, under the
\* other categories, and under any category.
LeaderNames(config) ==
    UNION {config[i].groups :
              i \in {k \in 1..Len(config) : config[k].category = "Original_Role_Groups"}}

SecondaryNames(config) ==
    UNION {config[i].groups :
              i \in {k \in 1..Len(config) : config[k].category # "Original_Role_Groups"}}

ListedNames(config) == LeaderNames(config) \cup SecondaryNames(config)

\* The Role records made for the group of row i of the Groups table.
RecordsOf(i) ==
    {k \in 1..Len(cr_roles.rows) :
        cr_roles.rows[k]["role_id"] = cr_groups_df.rows[i]["group_id"]}

GroupRows == 1..Len(cr_groups_df.rows)

EligibleRows ==
    {i \in GroupRows : cr_groups_df.rows[i]["group_name"] \in ListedNames(cr_config)}

\* C12: a group listed both in Original_Role_Groups and in another category
\* gets exactly one Role record, with source Original_Role_Groups; no group
\* gets more than one record.
C12_LeaderCategoryPrecedence ==
    cr_pc = "mapped" =>
        /\ \A i \in GroupRows : Cardinality(RecordsOf(i)) <= 1
        /\ \A i \in GroupRows :
              cr_groups_df.rows[i]["group_name"]
                  \in LeaderNames(cr_config) \cap SecondaryNames(cr_config)
              => /\ Cardinality(RecordsOf(i)) = 1
                 /\ \A k \in RecordsOf(i) :
                       cr_roles.rows[k]["source"] = "Original_Role_Groups"

\* Administrators is listed first under BuiltIn_AD_Groups and then under
\* Original_Role_Groups.
C12_Witness ==
    /\ cr_pc = "mapped"
    /\ cr_config = <<[category |-> "BuiltIn_AD_Groups",
                      groups |-> {"Administrators", "Domain Admins"}],
                     [category |-> "Original_Role_Groups",
                      groups |-> {"Administrators"}],
                     [category |-> "Exchange_Server_Groups", groups |-> {}]>>
    /\ Len(cr_groups_df.rows) = 2
    /\ cr_groups_df.rows[1]["group_name"] = "Administrators"
    /\ cr_groups_df.rows[2]["group_name"] = "Domain Admins"
    /\ Len(cr_roles.rows) = 2
    /\ \E k \in 1..2 : /\ cr_roles.rows[k]["role_id"] = "G1"
                       /\ cr_roles.rows[k]["source"] = "Original_Role_Groups"
    /\ \E k \in 1..2 : /\ cr_roles.rows[k]["role_id"] = "G2"
                       /\ cr_roles.rows[k]["source"] = "BuiltIn_AD_Groups"

\* C13: create_role_mappings makes exactly one Role record (role_id the
\* group_id, role_name the group_name) for every group row whose name some
\* category lists, none for the other rows, and the Roles table has as many
\* rows as there are eligible group rows.
C13_OneRolePerEligibleGroup ==
    cr_pc = "mapped" =>
        /\ \A i \in EligibleRows :
              /\ Cardinality(RecordsOf(i)) = 1
              /\ \A k \in RecordsOf(i) :
                    cr_roles.rows[k]["role_name"] = cr_groups_df.rows[i]["group_name"]
        /\ \A i \in GroupRows \ EligibleRows : RecordsOf(i) = {}
        /\ Len(cr_roles.rows) = Cardinality(EligibleRows)

C13_Witness ==
    /\ cr_pc = "mapped"
    /\ Len(cr_groups_df.rows) = 2
    /\ cr_groups_df.rows[1]["group_name"] = "Custom Group"
    /\ cr_groups_df.rows[2]["group_name"] = "Domain Admins"
    /\ EligibleRows = {2}
    /\ Len(cr_roles.rows) = 1
    /\ cr_roles.rows[1]["role_id"] = "G2"
    /\ cr_roles.rows[1]["role_name"] = "Domain Admins"

\* The string in lower case.
Lower(name) ==
    CASE name = "Administrators" -> "administrators"
      [] name = "Domain Admins" -> "domain admins"
      [] name = "Custom Group" -> "custom group"
      [] name = "YES" -> "yes"
      [] name = "No" -> "no"
      [] name = "TRUE" -> "true"
      [] OTHER -> name

\* C14: eligibility matching is case-insensitive: a group whose name equals
\* a listed name up to letter case gets a Role record.
C14_CaseInsensitiveEligibility ==
    cr_pc = "mapped" =>
        \A i \in GroupRows :
            Lower(cr_groups_df.rows[i]["group_name"])
                \in {Lower(n) : n \in ListedNames(cr_config)}
            => Cardinality(RecordsOf(i)) = 1

\* The positions of the secondary categories of a configuration that list
\* the name, in declaration order.
SecondaryListings(config, name) ==
    {k \in 1..Len(config) :
        config[k].category # "Original_Role_Groups" /\ name \in config[k].groups}

\* C23: a group whose name is listed in two secondary categories and not in
\* Original_Role_Groups gets one Role record, and its source is the category
\* declared first in the configuration document.
C23_SecondaryCategoryOrder ==
    cr_pc = "mapped" =>
        \A i \in GroupRows :
            LET name == cr_groups_df.rows[i]["group_name"]
                listings == SecondaryListings(cr_config, name)
            IN (Cardinality(listings) >= 2 /\ name \notin LeaderNames(cr_config))
               => /\ Cardinality(RecordsOf(i)) = 1
                  /\ \A k \in RecordsOf(i), first \in listings :
                        (\A other \in listings : first <= other)
                        => cr_roles.rows[k]["source"] = cr_config[first].category

\* Domain Admins is listed under BuiltIn_AD_Groups and, further down, under
\* Exchange_Server_Groups; Original_Role_Groups stands between the two.
C23_Witness ==
    /\ cr_pc = "mapped"
    /\ cr_config = <<[category |-> "BuiltIn_AD_Groups", groups |-> {"Domain Admins"}],
                     [category |-> "Original_Role_Groups", groups |-> {"Administrators"}],
                     [category |-> "Exchange_Server_Groups",
                      groups |-> {"Administrators", "Domain Admins"}]>>
    /\ Len(cr_groups_df.rows) = 1
    /\ cr_groups_df.rows[1]["group_name"] = "Domain Admins"
    /\ Len(cr_roles.rows) = 1
    /\ cr_roles.rows[1]["role_id"] = "G1"
    /\ cr_roles.rows[1]["source"] = "BuiltIn_AD_Groups"

(***************************************************************************)
(* ExcelHandler.read_sheets                                                *)
(***************************************************************************)
Null == "None"

\* ExcelHandler._get_required_columns
required_columns(sheet_name) ==
    CASE sheet_name = "Users" -> {"user_id", "username", "email"}
      [] sheet_name = "Groups" -> {"group_id", "group_name", "group_description",
                                   "MemberOf", "DistinguishedName"}
      [] sheet_name = "Roles" -> {"role_id", "role_name", "description", "source"}
      [] sheet_name = "User_Groups" -> {"user_id", "group_id"}
      [] sheet_name = "Group_Groups" -> {"parent_group_id", "child_group_id"}
      [] sheet_name = "User_Roles" -> {"user_id", "role_id"}
      [] sheet_name = "Group_Roles" -> {"group_id", "role_id"}
      [] OTHER -> {}

\* df[target] = df[source] when the source column exists.
CopyColumn(df, source, target) ==
    IF ~HasColumn(df, source) THEN df
    ELSE [cols |-> df.cols \cup {target},
          rows |-> [i \in 1..Len(df.rows) |->
                      [c \in df.cols \cup {target} |->
                          IF c = target THEN df.rows[i][source] ELSE df.rows[i][c]]]]

\* self.field_mappings (lines 59-64), applied to Group_Groups only.
ApplyFieldMappings(sheet_name, df) ==
    IF sheet_name = "Group_Groups"
    THEN CopyColumn(CopyColumn(df, "source_group_id", "parent_group_id"),
                    "destination_group_id", "child_group_id")
    ELSE df

\* Missing required columns are added with None, then df = df[required_cols].
SelectRequired(df, columns) ==
    [cols |-> columns,
     rows |-> [i \in 1..Len(df.rows) |->
                 [c \in columns |-> IF c \in df.cols THEN df.rows[i][c] ELSE Null]]]

\* One sheet of the result: the empty default frame, replaced by the
\* file's sheet when that exists and is not empty.
ReadSheet(excel_file, sheet_name) ==
    IF sheet_name \in DOMAIN excel_file /\ ~IsEmpty(excel_file[sheet_name])
    THEN SelectRequired(ApplyFieldMappings(sheet_name, excel_file[sheet_name]),
                        required_columns(sheet_name))
    ELSE EmptyFrame(required_columns(sheet_name))

read_sheets(excel_file) == [s \in SheetNames |-> ReadSheet(excel_file, s)]

(***************************************************************************)
(* SchemaValidator.validate_dataframe and validate_sheets                  *)
(***************************************************************************)
DefaultTimestamp == "2024-03-20T12:00:00Z"

\* pd.to_datetime parses the value / the parsed value carries a timezone.
ParsesAsDatetime(v) == v \in {DefaultTimestamp, "2024-03-20T12:00:00"}

HasTimezone(v) == v = DefaultTimestamp

Msg(kind) == [kind |-> kind, ids |-> {}]

MissingFieldErrors(df, fields) ==
    LET fs == SetToSeq({f \in fields : ~HasColumn(df, f)})
    IN [i \in 1..Len(fs) |-> Msg("Missing required field")]

DatetimeErrors(df, fields) ==
    LET bad == SetToSeq({f \in fields :
                   /\ HasColumn(df, f)
                   /\ \E v \in Range(Column(df, f)) :
                          ~ParsesAsDatetime(v) \/ ~HasTimezone(v)})
    IN [i \in 1..Len(bad) |-> Msg("Invalid datetime format")]

validate_users_schema(df) ==
    MissingFieldErrors(df, {"enabled", "created_at", "updated_at", "last_login_at"})
    \o (IF \E f \in {"user_id", "username", "email"} : HasColumn(df, f) THEN <<>>
        ELSE <<Msg("At least one of user_id, username, or email must be present")>>)
    \o (IF HasColumn(df, "full_name")
           \/ (HasColumn(df, "first_name") /\ HasColumn(df, "last_name"))
        THEN <<>>
        ELSE <<Msg("Either full_name or both first_name and last_name must be present")>>)
    \o DatetimeErrors(df, {"created_at", "updated_at", "last_login_at"})

validate_groups_schema(df) ==
    (IF HasColumn(df, "group_id") \/ HasColumn(df, "group_name") THEN <<>>
     ELSE <<Msg("At least one of group_id or group_name must be present")>>)
    \o (IF HasColumn(df, "group_name") /\ ~HasColumn(df, "description")
        THEN <<Msg("Description is required when group_name is present")>>
        ELSE <<>>)

validate_roles_schema(df) ==
    (IF HasColumn(df, "role_id") \/ HasColumn(df, "role_name") THEN <<>>
     ELSE <<Msg("At least one of role_id or role_name must be present")>>)
    \o (IF HasColumn(df, "description") THEN <<>>
        ELSE <<Msg("Description is required for roles")>>)

\* One required column of a relationship sheet: present and without nulls.
RequiredColumnErrors(df, col) ==
    IF ~HasColumn(df, col) THEN <<Msg("Missing required column")>>
    ELSE IF Null \in Range(Column(df, col)) THEN <<Msg("Column contains null values")>>
    ELSE <<>>

validate_pair_schema(df, col1, col2) ==
    RequiredColumnErrors(df, col1) \o RequiredColumnErrors(df, col2)

\* A message that names the schema.
SchemaMsg(kind, schema) == [kind |-> kind, ids |-> {schema}]

validate_dataframe(df, schema) ==
    IF IsEmpty(df) THEN <<SchemaMsg("DataFrame for <schema> is empty", schema)>>
    ELSE CASE schema = "Users" -> validate_users_schema(df)
           [] schema = "Groups" -> validate_groups_schema(df)
           [] schema = "Roles" -> validate_roles_schema(df)
           [] schema = "User_Groups" -> validate_pair_schema(df, "user_id", "group_id")
           [] schema = "Group_Groups" ->
                  validate_pair_schema(df, "parent_group_id", "child_group_id")
           [] schema = "User_Roles" -> validate_pair_schema(df, "user_id", "role_id")
           [] schema = "Group_Roles" -> validate_pair_schema(df, "group_id", "role_id")
           [] OTHER -> <<SchemaMsg("Unknown schema: <schema>", schema)>>

\* The order in which the sheets of a dict are visited.
SheetOrder ==
    <<"Users", "Groups", "Roles", "User_Groups", "Group_Groups", "User_Roles",
      "Group_Roles">>

RECURSIVE SheetErrors(_, _)
SheetErrors(sheets, i) ==
    IF i > Len(SheetOrder) THEN <<>>
    ELSE (IF SheetOrder[i] \in DOMAIN sheets
          THEN validate_dataframe(sheets[SheetOrder[i]], SheetOrder[i])
          ELSE <<>>)
         \o SheetErrors(sheets, i + 1)

validate_sheets(sheets, order) ==
    IF SheetNames \ DOMAIN sheets # {}
    THEN ReturnedErrors(<<Msg("Missing required sheet(s)")>>)
    ELSE LET rel == validate_relationships(sheets["Users"], sheets["Groups"],
                        sheets["User_Groups"], sheets["Group_Groups"], order)
         IN IF rel.raised # "none" THEN rel
            ELSE ReturnedErrors(SheetErrors(sheets, 1) \o rel.value)

(***************************************************************************)
(* Inputs and properties of validate_dataframe                             *)
(***************************************************************************)
IdentifierFields == {"user_id", "username", "email"}

\* Values of the enabled column: literals of the boolean set in several
\* letter cases, and one value outside it.
EnabledValues == {"YES", "No", "1", "maybe"}

\* The columns every Users table of the inputs has besides its identifiers.
UsersBaseRow(enabled) ==
    [full_name |-> "User One", enabled |-> enabled,
     created_at |-> DefaultTimestamp, updated_at |-> DefaultTimestamp,
     last_login_at |-> DefaultTimestamp]

UsersColumns(idcols) ==
    idcols \cup {"full_name", "enabled", "created_at", "updated_at", "last_login_at"}

\* One Users row: ids gives the value of each identifier column (a value or
\* None), the other columns are filled.
UsersRow(idcols, ids, enabled) ==
    [c \in UsersColumns(idcols) |->
        IF c \in idcols THEN ids[c] ELSE UsersBaseRow(enabled)[c]]

\* The rows of the tables: every filling of the identifier columns with
\* values and None, and every enabled value with the identifiers filled.
UsersRows(idcols) ==
    {UsersRow(idcols, ids, "YES") : ids \in [idcols -> {Null, "u1"}]}
    \cup {UsersRow(idcols, [c \in idcols |-> "u1"], enabled) :
              enabled \in EnabledValues}

\* Users tables of 1..MaxRows rows over every choice of identifier columns.
UsersTables ==
    UNION {UNION {{[cols |-> UsersColumns(idcols), rows |-> rows] :
                      rows \in [1..n -> UsersRows(idcols)]} :
                  n \in 1..MaxRows} :
           idcols \in SUBSET IdentifierFields}

\* Relationship tables: complete, with a null, and without a column.
PairTables ==
    {[cols |-> {"user_id", "group_id"},
      rows |-> <<[user_id |-> "U1", group_id |-> "G1"]>>],
     [cols |-> {"user_id", "group_id"},
      rows |-> <<[user_id |-> "U1", group_id |-> Null]>>],
     [cols |-> {"user_id"}, rows |-> <<[user_id |-> "U1"]>>]}

\* A table of no schema (tests/test_schema_validator.py:226) and the empty
\* tables.
OtherTables ==
    {[cols |-> {"test"}, rows |-> <<[test |-> "value"]>>],
     EmptyFrame({}),
     EmptyFrame({"user_id", "username", "email"})}

KnownSchemas == SheetNames

SchemaInputs ==
    ({"Users"} \X UsersTables)
    \cup ({"Groups"} \X GroupsTables)
    \cup ({"User_Groups"} \X PairTables)
    \cup ((KnownSchemas \cup {"UnknownSchema"}) \X OtherTables)

InitSchema ==
    /\ IdleWalk
    /\ IdleOutput
    /\ IdlePopulate
    /\ IdleDirectory
    /\ IdleResolve
    /\ IdleJoin
    /\ IdleValidate
    /\ IdleRun
    /\ IdleRoles
    /\ IdleSheets
    /\ vd_pc = "input"
    /\ \E input \in SchemaInputs :
          /\ vd_schema = input[1]
          /\ vd_df = input[2]
    /\ vd_errors = <<>>

\* errors = validator.validate_dataframe(df, schema)
ValidateDataframe ==
    /\ vd_pc = "input"
    /\ vd_errors' = validate_dataframe(vd_df, vd_schema)
    /\ vd_pc' = "validated"
    /\ UNCHANGED <<vd_schema, vd_df>>
    /\ UNCHANGED <<resolveVars, joinVars, validateVars, runVars, rolesVars,
                   sheetsVars,
                 walkVars, outputVars, populateVars, directoryVars>>

NextSchema == ValidateDataframe

SpecSchema == InitSchema /\ [][NextSchema]_vars

\* The rows of the validated table none of whose identifier fields holds a
\* value.
RowsWithoutIdentifier ==
    {i \in 1..Len(vd_df.rows) :
        \A f \in IdentifierFields :
            f \notin DOMAIN vd_df.rows[i] \/ vd_df.rows[i][f] = Null}

IdentifierErrors ==
    {i \in 1..Len(vd_errors) :
        vd_errors[i].kind
            = "At least one of user_id, username, or email must be present"}

\* C16: the identifier group of Users is checked per row: validation reports
\* the error naming user_id, username and email exactly when some row has
\* none of the three populated, also when the columns are present; a row
\* with only email populated passes.
C16_IdentifierCheckedPerRow ==
    (vd_pc = "validated" /\ vd_schema = "Users" /\ ~IsEmpty(vd_df)) =>
        (IdentifierErrors # {} <=> RowsWithoutIdentifier # {})

\* C17: validate_dataframe returns exactly one error "no schema defined for
\* <name>" for a name without a schema, and exactly one error "<name> is
\* empty", and nothing else, for an empty table of a known schema.
C17_UnknownAndEmptyErrors ==
    vd_pc = "validated" =>
        /\ vd_schema \notin KnownSchemas
           => vd_errors = <<SchemaMsg("No schema defined for <schema>", vd_schema)>>
        /\ (vd_schema \in KnownSchemas /\ IsEmpty(vd_df))
           => vd_errors = <<SchemaMsg("DataFrame for <schema> is empty", vd_schema)>>

\* The literals a boolean-like field accepts, in lower case.
BooleanLiterals == {"true", "false", "yes", "no", "1", "0"}

BooleanErrors ==
    {i \in 1..Len(vd_errors) : vd_errors[i].kind = "Invalid boolean values"}

\* C20: Users validation reports an error for an enabled value outside
\* {true, false, yes, no, 1, 0} (compared without regard to case) and none
\* when every enabled value is one of these literals in any letter case.
C20_EnabledLiteralSet ==
    (vd_pc = "validated" /\ vd_schema = "Users" /\ HasColumn(vd_df, "enabled")
        /\ ~IsEmpty(vd_df)) =>
        (BooleanErrors # {}
            <=> \E v \in Range(Column(vd_df, "enabled")) :
                    Lower(v) \notin BooleanLiterals)

(***************************************************************************)
(* Inputs and properties of validate_sheets                                *)
(***************************************************************************)
\* Users sheets: complete; without the enabled column; identified by
\* username only (no user_id column).
SheetsUsers ==
    {[cols |-> UsersColumns({"user_id"}),
      rows |-> <<UsersRow({"user_id"}, [c \in {"user_id"} |-> "U1"], "YES"),
                 UsersRow({"user_id"}, [c \in {"user_id"} |-> "U2"], "YES")>>],
     [cols |-> {"user_id", "full_name"},
      rows |-> <<[user_id |-> "U1", full_name |-> "User One"],
                 [user_id |-> "U2", full_name |-> "User Two"]>>],
     [cols |-> UsersColumns({"username"}),
      rows |-> <<UsersRow({"username"}, [c \in {"username"} |-> "u1"], "YES")>>]}

\* Groups sheets: complete; without the description column.
SheetsGroups ==
    {[cols |-> {"group_id", "group_name", "description"},
      rows |-> [i \in 1..3 |-> [group_id |-> GroupIdOf(i), group_name |-> "Custom Group",
                                description |-> "Group"]]],
     [cols |-> {"group_id", "group_name"},
      rows |-> [i \in 1..3 |-> [group_id |-> GroupIdOf(i), group_name |-> "Custom Group"]]]}

\* User_Groups sheets: resolving; with an unknown user.
SheetsUserGroups ==
    {UserGroupsFrame({<<"U1", "G1">>}), UserGroupsFrame({<<"U3", "G1">>})}

\* Group_Groups sheets: a chain; a cycle; an unknown parent; without the
\* parent_group_id column; no rows.
SheetsGroupGroups ==
    {GroupGroupsFrame({<<"G1", "G2">>, <<"G2", "G3">>}, FALSE),
     GroupGroupsFrame({<<"G1", "G2">>, <<"G2", "G1">>}, FALSE),
     GroupGroupsFrame({<<"G4", "G1">>}, FALSE),
     [cols |-> {"child_group_id"}, rows |-> <<[child_group_id |-> "G2"]>>],
     EmptyFrame({"parent_group_id", "child_group_id"})}

SheetsRoles ==
    {[cols |-> {"role_id", "role_name", "description"},
      rows |-> <<[role_id |-> "G1", role_name |-> "Custom Group",
                  description |-> "Group"]>>],
     EmptyFrame({"role_id", "role_name", "description"})}

SheetsUserRoles ==
    {[cols |-> {"user_id", "role_id"}, rows |-> <<[user_id |-> "U1", role_id |-> "G1"]>>]}

SheetsGroupRoles ==
    {[cols |-> {"group_id", "role_id"}, rows |-> <<[group_id |-> "G1", role_id |-> "G1"]>>]}

\* The dicts with all seven sheets.
CompleteSheetDicts ==
    {[s \in SheetNames |->
         CASE s = "Users" -> w[1]
           [] s = "Groups" -> w[2]
           [] s = "User_Groups" -> w[3]
           [] s = "Group_Groups" -> w[4]
           [] s = "Roles" -> w[5]
           [] s = "User_Roles" -> w[6]
           [] s = "Group_Roles" -> w[7]] :
        w \in SheetsUsers \X SheetsGroups \X SheetsUserGroups \X SheetsGroupGroups
              \X SheetsRoles \X SheetsUserRoles \X SheetsGroupRoles}

\* The dict without some of its sheets.
Without(sheets, names) == [s \in DOMAIN sheets \ names |-> sheets[s]]

SheetDicts ==
    CompleteSheetDicts
    \cup {Without(d, {"Roles"}) : d \in CompleteSheetDicts}

InitSheets ==
    /\ IdleWalk
    /\ IdleOutput
    /\ IdlePopulate
    /\ IdleDirectory
    /\ IdleResolve
    /\ IdleJoin
    /\ IdleValidate
    /\ IdleRun
    /\ IdleRoles
    /\ IdleSchema
    /\ vs_pc = "input"
    /\ vs_sheets \in SheetDicts
    /\ vs_report = ReturnedErrors(<<>>)

\* validation_errors = validator.validate_sheets(sheets)
ValidateSheets ==
    /\ vs_pc = "input"
    /\ \E order \in IterationOrders :
          vs_report' = validate_sheets(vs_sheets, order)
    /\ vs_pc' = "validated"
    /\ UNCHANGED vs_sheets
    /\ UNCHANGED <<resolveVars, joinVars, validateVars, runVars, rolesVars,
                   schemaVars,
                 walkVars, outputVars, populateVars, directoryVars>>

NextSheets == ValidateSheets

SpecSheets == InitSheets /\ [][NextSheets]_vars

\* The schema errors of the sheets of a dict, sheet by sheet.
SchemaErrorsOf(sheets) ==
    UNION {Range(validate_dataframe(sheets[s], s)) : s \in DOMAIN sheets \cap SheetNames}

\* The user ids of the memberships that no Users row carries.
UnknownMembers(sheets) ==
    {sheets["User_Groups"].rows[i]["user_id"] : i \in 1..Len(sheets["User_Groups"].rows)}
    \ {sheets["Users"].rows[i]["user_id"] :
          i \in {k \in 1..Len(sheets["Users"].rows) :
                    "user_id" \in DOMAIN sheets["Users"].rows[k]}}

\* The hierarchy rows of a dict that have both columns, as edges.
HierarchyEdges(sheets) ==
    {<<sheets["Group_Groups"].rows[i]["parent_group_id"],
       sheets["Group_Groups"].rows[i]["child_group_id"]>> :
        i \in {k \in 1..Len(sheets["Group_Groups"].rows) :
                  {"parent_group_id", "child_group_id"}
                      \subseteq DOMAIN sheets["Group_Groups"].rows[k]}}

\* C18: with all required sheets present, validate_sheets returns one report
\* that holds the schema errors of every sheet and the relationship errors
\* (dangling references, cycle) together; it does not stop at the first.
C18_ErrorsAccumulated ==
    (vs_pc = "validated" /\ SheetNames \subseteq DOMAIN vs_sheets) =>
        /\ vs_report.raised = "none"
        /\ SchemaErrorsOf(vs_sheets) \subseteq Range(vs_report.value)
        /\ UnknownMembers(vs_sheets) # {}
           => ErrorsOfKind(vs_report.value, "Invalid user_ids in User_Groups") # {}
        /\ ~Acyclic(HierarchyEdges(vs_sheets))
           => CycleErrors(vs_report.value) # {}

(***************************************************************************)
(* The input files of a run                                                *)
(***************************************************************************)
Sheet(columns, records) == [cols |-> columns, rows |-> records]

UsersSheets ==
    {Sheet({"user_id", "username", "email", "full_name", "enabled"},
           <<[user_id |-> "U1", username |-> "user1", email |-> "user1@test.com",
              full_name |-> "User One", enabled |-> "yes"],
             [user_id |-> "U2", username |-> "user2", email |-> "user2@test.com",
              full_name |-> "User Two", enabled |-> "yes"]>>),
     Sheet({"username"}, <<[username |-> "user1"]>>)}

GroupsSheets ==
    {Sheet({"group_id", "group_name", "description"},
           <<[group_id |-> "G1", group_name |-> "Administrators",
              description |-> "Admin Group"],
             [group_id |-> "G2", group_name |-> "Users",
              description |-> "Regular Users"],
             [group_id |-> "G3", group_name |-> "Custom Group",
              description |-> "Custom Group"]>>),
     Sheet({"group_id", "group_name", "description"},
           <<[group_id |-> "G1", group_name |-> "Custom Group",
              description |-> "Custom Group"],
             [group_id |-> "G2", group_name |-> "Other Group",
              description |-> "Other Group"],
             [group_id |-> "G3", group_name |-> "Third Group",
              description |-> "Third Group"]>>)}

UserGroupsSheets ==
    {UserGroupsFrame({<<"U1", "G1">>, <<"U2", "G2">>}),
     UserGroupsFrame({<<"U3", "G1">>})}

GroupGroupsSheets ==
    {GroupGroupsFrame({<<"G1", "G2">>, <<"G2", "G3">>}, FALSE),
     GroupGroupsFrame({<<"G1", "G2">>, <<"G2", "G1">>}, FALSE),
     GroupGroupsFrame({<<"G4", "G1">>}, FALSE),
     Sheet({"source_group_id", "destination_group_id"},
           <<[source_group_id |-> "G1", destination_group_id |-> "G2"]>>)}

RolesSheets ==
    {Sheet({"role_id", "role_name", "description"},
           <<[role_id |-> "R_Administrators", role_name |-> "Administrators",
              description |-> "Role for Administrators"]>>)}

UserRolesSheets ==
    {Sheet({"user_id", "role_id"}, <<[user_id |-> "U1", role_id |-> "R_Administrators"]>>)}

GroupRolesSheets ==
    {Sheet({"group_id", "role_id"}, <<[group_id |-> "G1", role_id |-> "R_Administrators"]>>)}

\* The choices for one sheet of a workbook: one of the given frames, or an
\* empty frame standing for a sheet that is absent or has no rows.
SheetChoices(frames) == frames \cup {EmptyFrame({})}

Workbooks ==
    {[s \in SheetNames |->
         CASE s = "Users" -> w[1]
           [] s = "Groups" -> w[2]
           [] s = "User_Groups" -> w[3]
           [] s = "Group_Groups" -> w[4]
           [] s = "Roles" -> w[5]
           [] s = "User_Roles" -> w[6]
           [] s = "Group_Roles" -> w[7]] :
        w \in SheetChoices(UsersSheets) \X SheetChoices(GroupsSheets)
              \X SheetChoices(UserGroupsSheets) \X SheetChoices(GroupGroupsSheets)
              \X SheetChoices(RolesSheets) \X SheetChoices(UserRolesSheets)
              \X SheetChoices(GroupRolesSheets)}


(***************************************************************************)
(* process_input_file, process_ad_data, main and utils process_input       *)
(***************************************************************************)
\* df[col] = value for every row, when the column is missing.
AddColumnIfMissing(df, col, value) ==
    IF HasColumn(df, col) THEN df
    ELSE [cols |-> df.cols \cup {col},
          rows |-> [i \in 1..Len(df.rows) |->
                      [c \in df.cols \cup {col} |->
                          IF c = col THEN value ELSE df.rows[i][c]]]]

\* Defaults added to the Users sheet (process_input.py:99-110).
UsersWithDefaults(df) ==
    LET d1 == AddColumnIfMissing(df, "enabled", "yes")
        d2 == AddColumnIfMissing(d1, "created_at", DefaultTimestamp)
        d3 == AddColumnIfMissing(d2, "updated_at", DefaultTimestamp)
        d4 == AddColumnIfMissing(d3, "last_login_at", DefaultTimestamp)
    IN IF ~HasColumn(d4, "full_name")
          /\ (~HasColumn(d4, "first_name") \/ ~HasColumn(d4, "last_name"))
       THEN AddColumnIfMissing(d4, "full_name", "User")
       ELSE d4

\* Default added to the Groups sheet (process_input.py:118-121).
GroupsWithDefaults(df) == AddColumnIfMissing(df, "description", "Group")

\* A validation report that is taken for a pass whatever it holds.
ValidationGateOpen(errors) == TRUE

\* if validation_errors: raise ValueError(...) (process_input.py:126-127)
ValidationGate(errors) == errors = <<>>

\* An exception handler that reports success.
FailWithStatusZero(exception) ==
    /\ run_pc' = "done"
    /\ raised' = exception
    /\ exit_code' = IF entry = "process_input" THEN exit_code ELSE 0

\* The run reaches the end of its entry point: status 1 after an exception
\* caught by process_ad_data or main, the exception itself for process_input.
Fail(exception) ==
    /\ run_pc' = "done"
    /\ raised' = exception
    /\ exit_code' = IF entry = "process_input" THEN exit_code ELSE 1

InitRun ==
    /\ IdleWalk
    /\ IdleOutput
    /\ IdlePopulate
    /\ IdleDirectory
    /\ IdleResolve
    /\ IdleJoin
    /\ IdleValidate
    /\ IdleRoles
    /\ IdleSchema
    /\ IdleSheets
    /\ run_pc = "start"
    /\ entry \in {"main", "process_ad_data", "process_input"}
    /\ env \in [input_exists : BOOLEAN,
                builtin_groups_file : {"none", "missing", "invalid", "present"},
                logs_dir_exists : BOOLEAN,
                args_complete : BOOLEAN]
    \* main passes a Path, which is never falsy; the other entry points take
    \* their paths as parameters.
    /\ entry = "main" => env.builtin_groups_file # "none"
    /\ entry # "main" => env.args_complete
    /\ workbook \in IF env.input_exists THEN Workbooks ELSE {NoWorkbook}
    /\ processed_data = NoWorkbook
    /\ role_mappings = EmptyFrame({})
    /\ validation_errors = <<>>
    /\ call_log = <<>>
    /\ output_written = FALSE
    /\ exit_code = -1
    /\ raised = "none"

\* main(): setup_logging, then the single-file branch (AD_oracle.py:225-249).
Main ==
    /\ run_pc = "start" /\ entry = "main"
    /\ IF ~env.logs_dir_exists
       THEN Fail("FileNotFoundError")      \* logging.FileHandler("logs/...")
       ELSE IF ~env.args_complete
       THEN /\ run_pc' = "done"
            /\ exit_code' = 1
            /\ UNCHANGED raised
       ELSE /\ run_pc' = "process_ad_data"
            /\ UNCHANGED <<raised, exit_code>>
    /\ UNCHANGED <<entry, env, workbook, processed_data, role_mappings,
                   validation_errors, call_log, output_written>>
    /\ UNCHANGED <<resolveVars, joinVars, validateVars, rolesVars, schemaVars,
                 sheetsVars,
                 walkVars, outputVars, populateVars, directoryVars>>

\* process_ad_data up to its call of process_input_file (AD_oracle.py:67-74).
ProcessAdData ==
    /\ \/ run_pc = "process_ad_data"
       \/ run_pc = "start" /\ entry = "process_ad_data"
    /\ IF ~env.logs_dir_exists
       \* setup_logging raises before the local name logger is bound, and the
       \* handler's logger.error raises UnboundLocalError out of the function.
       THEN /\ run_pc' = "done"
            /\ raised' = "UnboundLocalError"
            /\ UNCHANGED exit_code
       ELSE /\ run_pc' = "process_input_file"
            /\ UNCHANGED <<raised, exit_code>>
    /\ UNCHANGED <<entry, env, workbook, processed_data, role_mappings,
                   validation_errors, call_log, output_written>>
    /\ UNCHANGED <<resolveVars, joinVars, validateVars, rolesVars, schemaVars,
                 sheetsVars,
                 walkVars, outputVars, populateVars, directoryVars>>

\* process_input_file: the existence checks and read_sheets
\* (process_input.py:49-66).
PIF_ReadSheets ==
    /\ run_pc = "process_input_file"
    /\ IF ~env.input_exists \/ env.builtin_groups_file = "missing"
       THEN /\ Fail("FileNotFoundError")
            /\ UNCHANGED <<processed_data, call_log>>
       ELSE /\ processed_data' = read_sheets(workbook)
            /\ call_log' = Append(call_log, "read_sheets")
            /\ run_pc' = IF env.builtin_groups_file # "none"
                         THEN "role_mappings" ELSE "defaults"
            /\ UNCHANGED <<raised, exit_code>>
    /\ UNCHANGED <<entry, env, workbook, role_mappings, validation_errors,
                   output_written>>
    /\ UNCHANGED <<resolveVars, joinVars, validateVars, rolesVars, schemaVars,
                 sheetsVars,
                 walkVars, outputVars, populateVars, directoryVars>>

\* process_input_file: the block under "if builtin_groups_file:"
\* (process_input.py:69-91).  RoleMapper() loads the configuration, then
\* create_role_mappings returns a DataFrame; role_mappings["Roles"] looks up a
\* column of it, and a call with groups_df= / group_roles_df= is not accepted
\* by resolve_group_roles, so the block never gets past line 81.
PIF_RoleMappings ==
    /\ run_pc = "role_mappings"
    /\ IF env.builtin_groups_file = "invalid"
       THEN /\ Fail("JSONDecodeError")
            /\ UNCHANGED <<role_mappings, call_log>>
       ELSE /\ role_mappings' = create_role_mappings(group_config, processed_data["Groups"])
            /\ call_log' = Append(call_log, "create_role_mappings")
            /\ IF ~HasColumn(role_mappings', "Roles")
               THEN Fail("KeyError")
               ELSE Fail("TypeError")
    /\ UNCHANGED <<entry, env, workbook, processed_data, validation_errors,
                   output_written>>
    /\ UNCHANGED <<resolveVars, joinVars, validateVars, rolesVars, schemaVars,
                 sheetsVars,
                 walkVars, outputVars, populateVars, directoryVars>>

\* process_input_file: the defaults of Users and Groups
\* (process_input.py:94-121).
PIF_Defaults ==
    /\ run_pc = "defaults"
    /\ IF IsEmpty(processed_data["Users"]) \/ IsEmpty(processed_data["Groups"])
       THEN /\ Fail("ValueError")
            /\ UNCHANGED processed_data
       ELSE /\ processed_data' =
                  [processed_data EXCEPT
                      !["Users"] = UsersWithDefaults(@),
                      !["Groups"] = GroupsWithDefaults(@)]
            /\ run_pc' = "validate"
            /\ UNCHANGED <<raised, exit_code>>
    /\ UNCHANGED <<entry, env, workbook, role_mappings, validation_errors, call_log,
                   output_written>>
    /\ UNCHANGED <<resolveVars, joinVars, validateVars, rolesVars, schemaVars,
                 sheetsVars,
                 walkVars, outputVars, populateVars, directoryVars>>

\* process_input_file: validate_sheets and the raise on a non-empty report
\* (process_input.py:124-136).
PIF_Validate ==
    /\ run_pc = "validate"
    /\ \E order \in IterationOrders :
          LET report == validate_sheets(processed_data, order)
          IN /\ call_log' = Append(call_log, "validate_sheets")
             /\ validation_errors' = report.value
             /\ IF report.raised # "none"
                THEN Fail(report.raised)
                ELSE IF ~ValidationGate(report.value)
                THEN Fail("ValueError")
                ELSE /\ run_pc' = "check_roles"
                     /\ UNCHANGED <<raised, exit_code>>
    /\ UNCHANGED <<entry, env, workbook, processed_data, role_mappings,
                   output_written>>
    /\ UNCHANGED <<resolveVars, joinVars, validateVars, rolesVars, schemaVars,
                 sheetsVars,
                 walkVars, outputVars, populateVars, directoryVars>>

\* The checks of the processed data that raise ValueError: no "Roles" key,
\* or len(processed_data["Roles"]) == 0 (AD_oracle.py:80-85).
NoRolesCreated(data) ==
    \/ "Roles" \notin DOMAIN data
    \/ Len(data["Roles"].rows) = 0

\* process_ad_data after process_input_file returned: the checks of the
\* Roles sheet, save_sheets and return 0 (AD_oracle.py:77-127).
PAD_SaveSheets ==
    /\ run_pc = "check_roles"
    /\ IF NoRolesCreated(processed_data)
       THEN /\ Fail("ValueError")
            /\ UNCHANGED <<call_log, output_written>>
       ELSE /\ call_log' = Append(call_log, "save_sheets")
            /\ output_written' = TRUE
            /\ run_pc' = "done"
            /\ exit_code' = 0
            /\ UNCHANGED raised
    /\ UNCHANGED <<entry, env, workbook, processed_data, role_mappings,
                   validation_errors>>
    /\ UNCHANGED <<resolveVars, joinVars, validateVars, rolesVars, schemaVars,
                 sheetsVars,
                 walkVars, outputVars, populateVars, directoryVars>>

\* The four schema checks of utils process_input (utils/process_input.py:51-59).
SchemaErrorsOfInputs(sheets) ==
    validate_dataframe(sheets["Users"], "Users")
    \o validate_dataframe(sheets["Groups"], "Groups")
    \o validate_dataframe(sheets["User_Groups"], "User_Groups")
    \o validate_dataframe(sheets["Group_Groups"], "Group_Groups")

\* utils process_input: read_sheets (utils/process_input.py:31-48).
PI_ReadSheets ==
    /\ run_pc = "start" /\ entry = "process_input"
    /\ IF ~env.input_exists
       THEN /\ Fail("FileNotFoundError")
            /\ UNCHANGED <<processed_data, call_log>>
       ELSE /\ processed_data' = read_sheets(workbook)
            /\ call_log' = Append(call_log, "read_sheets")
            /\ run_pc' = "validate_schemas"
            /\ UNCHANGED <<raised, exit_code>>
    /\ UNCHANGED <<entry, env, workbook, role_mappings, validation_errors,
                   output_written>>
    /\ UNCHANGED <<resolveVars, joinVars, validateVars, rolesVars, schemaVars,
                 sheetsVars,
                 walkVars, outputVars, populateVars, directoryVars>>

\* utils process_input from the schema checks on
\* (utils/process_input.py:50-123).  After a clean report it builds the
\* RoleMapper and the role mappings and looks up role_mappings["Roles"], a
\* column the returned DataFrame does not have, so resolution and
\* save_sheets (lines 78-123) are not reached.
PI_ValidateAndResolve ==
    /\ run_pc = "validate_schemas"
    /\ validation_errors' = SchemaErrorsOfInputs(processed_data)
    /\ IF ~ValidationGate(validation_errors')
       THEN /\ call_log' = Append(call_log, "validate_dataframe")
            /\ Fail("ValueError")
            /\ UNCHANGED role_mappings
       ELSE IF env.builtin_groups_file \in {"none", "missing"}
       THEN /\ call_log' = Append(call_log, "validate_dataframe")
            /\ Fail("FileNotFoundError")
            /\ UNCHANGED role_mappings
       ELSE IF env.builtin_groups_file = "invalid"
       THEN /\ call_log' = Append(call_log, "validate_dataframe")
            /\ Fail("JSONDecodeError")
            /\ UNCHANGED role_mappings
       ELSE /\ role_mappings' = create_role_mappings(group_config, processed_data["Groups"])
            /\ call_log' = call_log \o <<"validate_dataframe", "create_role_mappings">>
            /\ IF ~HasColumn(role_mappings', "Roles")
               THEN Fail("KeyError")
               ELSE Fail("TypeError")
    /\ UNCHANGED <<entry, env, workbook, processed_data, output_written>>
    /\ UNCHANGED <<resolveVars, joinVars, validateVars, rolesVars, schemaVars,
                 sheetsVars,
                 walkVars, outputVars, populateVars, directoryVars>>

NextRun ==
    \/ Main
    \/ ProcessAdData
    \/ PIF_ReadSheets
    \/ PIF_RoleMappings
    \/ PIF_Defaults
    \/ PIF_Validate
    \/ PAD_SaveSheets
    \/ PI_ReadSheets
    \/ PI_ValidateAndResolve

Spec == InitRun /\ [][NextRun]_vars

(***************************************************************************)
(* Claims about the run pipeline                                           *)
(***************************************************************************)
\* The positions in the call log of the call_log of the resolution stages.
ResolutionCalls ==
    {i \in 1..Len(call_log) :
        call_log[i] \in {"create_role_mappings", "resolve_group_roles",
                      "resolve_user_roles"}}

\* C7: validation is a hard gate of process_input_file: role building, the
\* group-role closure and the user-role join are invoked only after
\* validate_sheets has returned an empty report, and never when it reports
\* an error.
C7_ValidationGatesResolution ==
    entry \in {"main", "process_ad_data"} =>
        \A i \in ResolutionCalls :
            /\ \E j \in 1..(i - 1) : call_log[j] = "validate_sheets"
            /\ validation_errors = <<>>

\* C8: in both entry points the output file is written only after the
\* schema checks and the relationship checks have run and reported nothing,
\* so an input with a validation error never produces an output file.
C8_NoOutputOnValidationError ==
    output_written =>
        /\ \E i \in 1..Len(call_log) :
              /\ call_log[i] \in {"validate_sheets", "validate_dataframe"}
              /\ \E j \in (i + 1)..Len(call_log) : call_log[j] = "save_sheets"
        /\ validation_errors = <<>>
        /\ \A order \in IterationOrders :
              validate_sheets(processed_data, order) = ReturnedErrors(<<>>)

C8_Witness ==
    /\ run_pc = "done"
    /\ entry = "process_ad_data"
    /\ "validate_sheets" \in Range(call_log)
    /\ CycleErrors(validation_errors) # {}
    /\ ~output_written
    /\ exit_code = 1

\* The input of a run is valid: the files exist, the four input tables pass
\* their schema checks (with the defaults of process_input_file) and the
\* relationship checks, the hierarchy is acyclic and at least one group is
\* role-eligible.
ValidInput ==
    /\ env.input_exists
    /\ env.builtin_groups_file = "present"
    /\ env.logs_dir_exists
    /\ env.args_complete
    /\ LET data == read_sheets(workbook)
       IN /\ \A s \in {"Users", "Groups", "User_Groups", "Group_Groups"} :
                ~IsEmpty(data[s])
          /\ validate_dataframe(UsersWithDefaults(data["Users"]), "Users") = <<>>
          /\ validate_dataframe(GroupsWithDefaults(data["Groups"]), "Groups") = <<>>
          /\ validate_dataframe(data["User_Groups"], "User_Groups") = <<>>
          /\ validate_dataframe(data["Group_Groups"], "Group_Groups") = <<>>
          /\ \A order \in IterationOrders :
                validate_relationships(data["Users"], data["Groups"],
                                       data["User_Groups"], data["Group_Groups"],
                                       order) = ReturnedErrors(<<>>)
          /\ Acyclic(EdgeSet(data["Group_Groups"]))
          /\ ~IsEmpty(create_role_mappings(group_config, data["Groups"]))

\* C9: the single-file command-line run returns 0 and writes the output file
\* for a valid input, and returns 1 on every validation or processing
\* failure.
C9_ExitStatus ==
    (entry = "main" /\ run_pc = "done") =>
        IF ValidInput
        THEN exit_code = 0 /\ output_written
        ELSE exit_code = 1 /\ ~output_written

\* The Roles table the run produced is empty: the sheets read without a
\* configuration document hold no role, or the role mappings built from the
\* Groups sheet have no row.
EmptyRolesProduced ==
    \/ /\ "read_sheets" \in Range(call_log)
       /\ env.builtin_groups_file = "none"
       /\ NoRolesCreated(processed_data)
    \/ /\ "create_role_mappings" \in Range(call_log)
       /\ IsEmpty(role_mappings)

\* C29: a run that produces an empty Roles table is a failure: process_ad_data
\* raises internally, returns 1 and never reaches save_sheets, so no output
\* file is written.
C29_EmptyRolesIsFailure ==
    (/\ run_pc = "done"
     /\ entry \in {"main", "process_ad_data"}
     /\ EmptyRolesProduced)
    => /\ raised # "none"
       /\ exit_code = 1
       /\ "save_sheets" \notin Range(call_log)
       /\ ~output_written

\* A workbook whose other sheets are filled and valid, and whose Roles sheet
\* has no row: the only validation error is the empty Roles table, and
\* process_ad_data has returned 1.
C29_Witness ==
    /\ run_pc = "done"
    /\ entry = "process_ad_data"
    /\ env.builtin_groups_file = "none"
    /\ call_log = <<"read_sheets", "validate_sheets">>
    /\ Len(processed_data["Roles"].rows) = 0
    /\ Len(validation_errors) = 1
    /\ validation_errors[1].ids = {"Roles"}
    /\ raised = "ValueError"
    /\ exit_code = 1
    /\ ~output_written

\* The run meets a fatal environmental condition: the input file is missing,
\* or the configuration document is missing or cannot be parsed.
FatalEnvironment ==
    \/ ~env.input_exists
    \/ env.builtin_groups_file \in {"missing", "invalid"}

\* C19: a missing input file and a missing or unparsable configuration
\* document are raised at once: process_input_file raises before any sheet
\* is read, any role is built or anything is validated, and the run writes
\* no output.
C19_FatalErrorsRaisedImmediately ==
    (/\ run_pc = "done"
     /\ entry \in {"main", "process_ad_data"}
     /\ env.logs_dir_exists /\ env.args_complete
     /\ FatalEnvironment)
    => /\ raised \in {"FileNotFoundError", "JSONDecodeError"}
       /\ call_log = <<>>
       /\ ~output_written

(***************************************************************************)
(* resolve_group_roles, one call of get_inherited_roles at a time          *)
(***************************************************************************)
MaxWalkEdges == 4

\* The groups of the hierarchies the walk is run on.
WalkGroupIds == {"G1", "G2", "G3"}

\* No ascent holds more frames than this; the guard of WalkCall keeps the
\* stack finite.
MaxDepth == 4

\* The Roles tables of the walk: every group a role, two of them, none.
WalkRoleSets == {WalkGroupIds, {"G1", "G3"}, {}}

\* group_groups_df[group_groups_df["child_group_id"] == g]["parent_group_id"]
\* as the Series the for loop iterates: one value per row, in row order.
ParentSeries(gg_df, g) ==
    LET selected == SelectSeq(gg_df.rows, LAMBDA r : r["child_group_id"] = g)
    IN [i \in 1..Len(selected) |-> selected[i]["parent_group_id"]]

InitWalk ==
    /\ IdleResolve
    /\ IdleJoin
    /\ IdleValidate
    /\ IdleRun
    /\ IdleRoles
    /\ IdleSchema
    /\ IdleSheets
    /\ IdleOutput
    /\ IdlePopulate
    /\ IdleDirectory
    \* The call is at the head of its loop (line 215): group_roles and
    \* processed_groups are empty and all_groups is computed (lines 179-213).
    /\ wk_pc = "for"
    /\ \E S \in WalkRoleSets : wk_roles_df = RolesFrame(S)
    /\ \E E \in SUBSET (WalkGroupIds \X WalkGroupIds) :
           /\ Cardinality(E) <= MaxWalkEdges
           /\ wk_group_groups_df = GroupGroupsFrame(E, FALSE)
    /\ wk_groups = all_groups(wk_group_groups_df)
    /\ wk_next = 1
    /\ wk_call = [group_id |-> "none", visited |-> {}]
    /\ wk_stack = <<>>
    /\ wk_returned = {}
    /\ wk_group_roles = <<>>
    /\ wk_processed = {}

\* The loop with one visited set for the whole resolution: the top-level call
\* of a group is given the groups already processed.
WalkForSharedVisited ==
    /\ wk_pc = "for"
    /\ IF wk_next > Len(wk_groups)
       THEN /\ wk_pc' = "done"
            /\ UNCHANGED <<wk_next, wk_call>>
       ELSE IF wk_groups[wk_next] \in wk_processed
       THEN /\ wk_next' = wk_next + 1
            /\ UNCHANGED <<wk_pc, wk_call>>
       ELSE /\ wk_call' = [group_id |-> wk_groups[wk_next], visited |-> wk_processed]
            /\ wk_pc' = "call"
            /\ UNCHANGED wk_next
    /\ UNCHANGED <<wk_roles_df, wk_group_groups_df, wk_groups, wk_stack, wk_returned,
                   wk_group_roles, wk_processed>>
    /\ UNCHANGED <<resolveVars, joinVars, validateVars, runVars, rolesVars,
                   schemaVars, sheetsVars, outputVars, populateVars, directoryVars>>

\* for group_id in all_groups: the head of the loop and the top-level call
\* get_inherited_roles(group_id, set()) (lines 215-220); return after the
\* last group (line 232).
WalkFor ==
    /\ wk_pc = "for"
    /\ IF wk_next > Len(wk_groups)
       THEN /\ wk_pc' = "done"
            /\ UNCHANGED <<wk_next, wk_call>>
       ELSE IF wk_groups[wk_next] \in wk_processed
       THEN /\ wk_next' = wk_next + 1
            /\ UNCHANGED <<wk_pc, wk_call>>
       ELSE /\ wk_call' = [group_id |-> wk_groups[wk_next], visited |-> {}]
            /\ wk_pc' = "call"
            /\ UNCHANGED wk_next
    /\ UNCHANGED <<wk_roles_df, wk_group_groups_df, wk_groups, wk_stack, wk_returned,
                   wk_group_roles, wk_processed>>
    /\ UNCHANGED <<resolveVars, joinVars, validateVars, runVars, rolesVars,
                   schemaVars, sheetsVars, outputVars, populateVars, directoryVars>>

\* The frame a call of get_inherited_roles(group_id, visited) opens once it
\* is past the visited test (lines 198-202).
OpenFrame(group_id, visited) ==
    [group_id |-> group_id,
     visited |-> visited \cup {group_id},
     inherited |-> IF group_id \in RoleIdValues(wk_roles_df) THEN {group_id} ELSE {},
     parent_groups |-> ParentSeries(wk_group_groups_df, group_id)]

\* A call that opens a frame whatever its visited argument holds.
WalkCallNoVisitedTest ==
    /\ wk_pc = "call"
    /\ Len(wk_stack) < MaxDepth
    /\ IF ~HasColumn(wk_roles_df, "role_id")
       THEN /\ wk_pc' = "raised"
            /\ UNCHANGED <<wk_stack, wk_returned>>
       ELSE /\ wk_stack' = Append(wk_stack, OpenFrame(wk_call.group_id, wk_call.visited))
            /\ wk_pc' = "loop"
            /\ UNCHANGED wk_returned
    /\ UNCHANGED <<wk_roles_df, wk_group_groups_df, wk_groups, wk_next, wk_call,
                   wk_group_roles, wk_processed>>
    /\ UNCHANGED <<resolveVars, joinVars, validateVars, runVars, rolesVars,
                   schemaVars, sheetsVars, outputVars, populateVars, directoryVars>>

\* Entry of get_inherited_roles(group_id, visited) (lines 195-202): an
\* already visited group returns the empty set; otherwise the group is added
\* to visited and its own role and its parents are looked up.  The lookup
\* roles_df["role_id"] raises KeyError on a Roles table without columns.
WalkCall ==
    /\ wk_pc = "call"
    /\ Len(wk_stack) < MaxDepth
    /\ IF wk_call.group_id \in wk_call.visited
       THEN /\ wk_returned' = {}
            /\ wk_pc' = "return"
            /\ UNCHANGED wk_stack
       ELSE IF ~HasColumn(wk_roles_df, "role_id")
       THEN /\ wk_pc' = "raised"
            /\ UNCHANGED <<wk_stack, wk_returned>>
       ELSE /\ wk_stack' = Append(wk_stack, OpenFrame(wk_call.group_id, wk_call.visited))
            /\ wk_pc' = "loop"
            /\ UNCHANGED wk_returned
    /\ UNCHANGED <<wk_roles_df, wk_group_groups_df, wk_groups, wk_next, wk_call,
                   wk_group_roles, wk_processed>>
    /\ UNCHANGED <<resolveVars, joinVars, validateVars, runVars, rolesVars,
                   schemaVars, sheetsVars, outputVars, populateVars, directoryVars>>

\* for parent_id in parent_groups: the next recursive call, with a copy of
\* visited, or return inherited after the last parent (lines 204-207).
WalkLoop ==
    /\ wk_pc = "loop"
    /\ LET top == wk_stack[Len(wk_stack)]
       IN IF top.parent_groups = <<>>
          THEN /\ wk_returned' = top.inherited
               /\ wk_stack' = SubSeq(wk_stack, 1, Len(wk_stack) - 1)
               /\ wk_pc' = "return"
               /\ UNCHANGED wk_call
          ELSE /\ wk_call' = [group_id |-> Head(top.parent_groups),
                              visited |-> top.visited]
               /\ wk_stack' = [wk_stack EXCEPT
                                 ![Len(wk_stack)].parent_groups = Tail(@)]
               /\ wk_pc' = "call"
               /\ UNCHANGED wk_returned
    /\ UNCHANGED <<wk_roles_df, wk_group_groups_df, wk_groups, wk_next,
                   wk_group_roles, wk_processed>>
    /\ UNCHANGED <<resolveVars, joinVars, validateVars, runVars, rolesVars,
                   schemaVars, sheetsVars, outputVars, populateVars, directoryVars>>

\* A call returned: to the caller's inherited.update(...) (line 205), or, for
\* the top-level call, to the rows appended for the group (lines 222-230).
WalkReturn ==
    /\ wk_pc = "return"
    /\ IF wk_stack = <<>>
       THEN /\ wk_group_roles' =
                  wk_group_roles \o GroupRoleRows(wk_roles_df, wk_groups[wk_next],
                                                  wk_returned)
            /\ wk_processed' = wk_processed \cup {wk_groups[wk_next]}
            /\ wk_next' = wk_next + 1
            /\ wk_pc' = "for"
            /\ UNCHANGED wk_stack
       ELSE /\ wk_stack' = [wk_stack EXCEPT
                              ![Len(wk_stack)].inherited = @ \cup wk_returned]
            /\ wk_pc' = "loop"
            /\ UNCHANGED <<wk_group_roles, wk_processed, wk_next>>
    /\ UNCHANGED <<wk_roles_df, wk_group_groups_df, wk_groups, wk_call, wk_returned>>
    /\ UNCHANGED <<resolveVars, joinVars, validateVars, runVars, rolesVars,
                   schemaVars, sheetsVars, outputVars, populateVars, directoryVars>>

NextWalk == WalkFor \/ WalkCall \/ WalkLoop \/ WalkReturn

\* The interpreter runs the next statement whenever there is one.
SpecWalk == InitWalk /\ [][NextWalk]_vars /\ WF_vars(NextWalk)

\* The groups of the frames of the current ascent, outermost first.
AscentGroups == [i \in 1..Len(wk_stack) |-> wk_stack[i].group_id]

\* No group is expanded twice on the same path: the open frames are for
\* distinct groups, and each frame's visited set is the groups of the frames
\* up to it.
AscentDistinct ==
    /\ ~HasDuplicates(AscentGroups)
    /\ \A i \in 1..Len(wk_stack) :
          wk_stack[i].visited = {wk_stack[j].group_id : j \in 1..i}
    /\ Len(wk_stack) <= Cardinality(NodesOf(EdgeSet(wk_group_groups_df)))

\* C21: resolve_group_roles terminates on every hierarchy edge set, cycles
\* and self-loops included: the ancestor walk stops at a group already seen in
\* the current ascent, so no group is expanded twice on the same path.
C21_WalkTerminates ==
    /\ []AscentDistinct
    /\ <>(wk_pc \in {"done", "raised"})

C21_Witness ==
    /\ wk_pc = "done"
    /\ EdgeSet(wk_group_groups_df) = {<<"G1", "G1">>, <<"G1", "G2">>, <<"G2", "G1">>}
    /\ RoleIdValues(wk_roles_df) = WalkGroupIds
    /\ PairsOf(DataFrame(wk_group_roles))
          = {<<"G1", "G1">>, <<"G1", "G2">>, <<"G2", "G1">>, <<"G2", "G2">>}

RECURSIVE Worklist(_, _, _, _, _)
\* A traversal over parent links with an explicit stack and one visited set:
\* pop a group, skip it when visited, else mark it, take its own role and
\* push its parents.
Worklist(r_df, gg_df, stack, visited, role_ids) ==
    IF stack = <<>> THEN role_ids
    ELSE IF Head(stack) \in visited
    THEN Worklist(r_df, gg_df, Tail(stack), visited, role_ids)
    ELSE Worklist(r_df, gg_df, ParentSeries(gg_df, Head(stack)) \o Tail(stack),
                  visited \cup {Head(stack)},
                  role_ids \cup (IF Head(stack) \in RoleIdValues(r_df)
                                 THEN {Head(stack)} ELSE {}))

WorklistRoles(r_df, gg_df, start) == Worklist(r_df, gg_df, <<start>>, {}, {})

\* The roles the walk appended for group g.
WalkedRoles(g) ==
    {wk_group_roles[i]["role_id"] :
        i \in {k \in 1..Len(wk_group_roles) : wk_group_roles[k]["group_id"] = g}}

\* C22: on every hierarchy, cyclic or not, and for every start group, the
\* recursive walk that copies visited at each call yields the role set of a
\* worklist traversal with one visited set per top-level call: the own roles
\* of the start group and of every group reachable through parent links.
C22_WalkEqualsWorklist ==
    /\ \A g \in wk_processed :
          /\ WalkedRoles(g) = WorklistRoles(wk_roles_df, wk_group_groups_df, g)
          /\ WalkedRoles(g) = RoleIdValues(wk_roles_df)
                                \cap AncestorsOrSelf(EdgeSet(wk_group_groups_df), g)
    /\ HasColumn(wk_roles_df, "role_id") =>
          \A g \in WalkGroupIds :
             get_inherited_roles(wk_roles_df, wk_group_groups_df, g, {})
                = WorklistRoles(wk_roles_df, wk_group_groups_df, g)

C22_Witness ==
    /\ wk_pc = "done"
    /\ EdgeSet(wk_group_groups_df)
          = {<<"G1", "G2">>, <<"G2", "G3">>, <<"G3", "G1">>, <<"G2", "G2">>}
    /\ RoleIdValues(wk_roles_df) = {"G1", "G3"}
    /\ \A g \in WalkGroupIds : WalkedRoles(g) = {"G1", "G3"}

(***************************************************************************)
(* The resolution stage: resolve_group_roles, resolve_user_roles and the   *)
(* sheets prepared for the output                                          *)
(***************************************************************************)
MaxDeriveEdges == 2

MaxDeriveRoles == 2

\* The membership tables of the resolution stage: none, one user in a child
\* group, two users in two groups, one user in two groups.
DeriveMemberships ==
    {{}, {<<"U1", "G2">>}, {<<"U1", "G2">>, <<"U2", "G4">>},
     {<<"U1", "G1">>, <<"U1", "G2">>}}

InitDerive ==
    /\ IdleValidate
    /\ IdleRun
    /\ IdleRoles
    /\ IdleSchema
    /\ IdleSheets
    /\ IdleWalk
    /\ IdlePopulate
    /\ IdleDirectory
    /\ rs_pc = "input"
    /\ \E S \in SUBSET GroupIds :
           /\ Cardinality(S) <= MaxDeriveRoles
           /\ roles_df = RolesFrame(S)
    /\ \E E \in SUBSET EdgePairs :
           /\ Cardinality(E) <= MaxDeriveEdges
           /\ group_groups_df = GroupGroupsFrame(E, FALSE)
    /\ group_roles = Returned(EmptyFrame({}))
    /\ group_roles_again = Returned(EmptyFrame({}))
    /\ jn_pc = "input"
    /\ \E M \in DeriveMemberships : user_groups_df = UserGroupsFrame(M)
    /\ group_roles_df = EmptyFrame({})
    /\ user_roles = Returned(EmptyFrame({}))
    /\ out_pc = "pending"
    /\ output_data = NoOutput

\* user_roles_df = resolve_user_roles(user_groups_df, group_roles_df) with
\* the table resolve_group_roles returned (tests/test_role_mapper.py:92-93,
\* utils/process_input.py:98-100).
DeriveUserRoles ==
    /\ rs_pc = "resolved" /\ jn_pc = "input"
    /\ group_roles.raised = "none"
    /\ group_roles_df' = group_roles.value
    /\ user_roles' = resolve_user_roles(user_groups_df, group_roles.value)
    /\ jn_pc' = "joined"
    /\ UNCHANGED user_groups_df
    /\ UNCHANGED <<resolveVars, validateVars, runVars, rolesVars, schemaVars,
                   sheetsVars, walkVars, outputVars, populateVars, directoryVars>>

\* The prepared sheets with the membership rows in place of the hierarchy.
PrepareOutputSwapped ==
    /\ jn_pc = "joined" /\ out_pc = "pending"
    /\ user_roles.raised = "none"
    /\ output_data' = [Roles |-> roles_df,
                       User_Groups |-> user_groups_df,
                       Group_Groups |-> user_groups_df,
                       User_Roles |-> user_roles.value,
                       Group_Roles |-> group_roles_df]
    /\ out_pc' = "prepared"
    /\ UNCHANGED <<resolveVars, joinVars, validateVars, runVars, rolesVars,
                   schemaVars, sheetsVars, walkVars, populateVars, directoryVars>>

\* output_data = {...} (utils/process_input.py:111-120), restricted to the
\* sheets the resolution stage reads or makes.
PrepareOutput ==
    /\ jn_pc = "joined" /\ out_pc = "pending"
    /\ user_roles.raised = "none"
    /\ output_data' = [Roles |-> roles_df,
                       User_Groups |-> user_groups_df,
                       Group_Groups |-> group_groups_df,
                       User_Roles |-> user_roles.value,
                       Group_Roles |-> group_roles_df]
    /\ out_pc' = "prepared"
    /\ UNCHANGED <<resolveVars, joinVars, validateVars, runVars, rolesVars,
                   schemaVars, sheetsVars, walkVars, populateVars, directoryVars>>

NextDerive == ResolveGroupRoles \/ DeriveUserRoles \/ PrepareOutput

SpecDerive == InitDerive /\ [][NextDerive]_vars

\* The roles a group holds or inherits, by reachability over parent links.
HeldOrInherited(g) ==
    RoleIdValues(roles_df) \cap AncestorsOrSelf(EdgeSet(group_groups_df), g)

MaxPopulateRows == 3

\* pd.isna / pd.notna of a cell.
IsNa(v) == v = Null

\* f"G{next_id}"
FormatGroupId(next_id) ==
    <<"G1", "G2", "G3", "G4", "G5", "G6", "G7", "G8", "G9", "G10">>[next_id]

\* The rows of a frame with column col of row i set to value
\* (df.loc[idx, col] = value).
SetCell(rows, i, col, value) == [rows EXCEPT ![i][col] = value]

\* mask = df["description"].isna() & df["group_name"].notna();
\* df.loc[mask, "description"] = df.loc[mask, "group_name"] (lines 455-457)
PopulateDescription(df) ==
    IF HasColumn(df, "description") /\ HasColumn(df, "group_name")
    THEN [df EXCEPT !.rows =
            [i \in 1..Len(df.rows) |->
                IF IsNa(df.rows[i]["description"]) /\ ~IsNa(df.rows[i]["group_name"])
                THEN [df.rows[i] EXCEPT !["description"] = df.rows[i]["group_name"]]
                ELSE df.rows[i]]]
    ELSE df

RECURSIVE NextUnusedId(_, _)
\* while f"G{next_id}" in df["group_id"].values: next_id += 1 (lines 464-465)
NextUnusedId(rows, next_id) ==
    IF FormatGroupId(next_id) \in {rows[k]["group_id"] : k \in 1..Len(rows)}
    THEN NextUnusedId(rows, next_id + 1)
    ELSE next_id

RECURSIVE AssignGroupIds(_, _, _)

\* The loop without the search for an unused number.
AssignGroupIdsInSequence(rows, i, next_id) ==
    IF i > Len(rows) THEN rows
    ELSE IF ~IsNa(rows[i]["group_id"])
    THEN AssignGroupIds(rows, i + 1, next_id)
    ELSE AssignGroupIds(SetCell(rows, i, "group_id", FormatGroupId(next_id)),
                        i + 1, next_id + 1)

\* for idx in df[mask].index: ... (lines 463-467); the rows of the mask are
\* those whose group_id is still absent when the loop reaches them.
AssignGroupIds(rows, i, next_id) ==
    IF i > Len(rows) THEN rows
    ELSE IF ~IsNa(rows[i]["group_id"])
    THEN AssignGroupIds(rows, i + 1, next_id)
    ELSE LET unused == NextUnusedId(rows, next_id)
         IN AssignGroupIds(SetCell(rows, i, "group_id", FormatGroupId(unused)),
                           i + 1, unused + 1)

populate_group_fields(df) ==
    LET d1 == PopulateDescription(df)
    IN IF HasColumn(d1, "group_id")
       THEN [d1 EXCEPT !.rows = AssignGroupIds(d1.rows, 1, 1)]
       ELSE d1

\* x.split("@")[0] if pd.notna(x) and "@" in str(x) else x
LocalPart(x) == IF x = "jdoe@example.com" THEN "jdoe" ELSE x

\* f"{row['first_name']} {row['last_name']}" when both are present
FullName(first_name, last_name) ==
    IF IsNa(first_name) \/ IsNa(last_name) THEN Null
    ELSE IF first_name = "John" /\ last_name = "Doe" THEN "John Doe"
    ELSE "first_name last_name"

\* df.loc[mask, target] = df.loc[mask, source] with mask = df[target].isna()
FillFrom(df, target, source) ==
    [df EXCEPT !.rows =
        [i \in 1..Len(df.rows) |->
            IF IsNa(df.rows[i][target])
            THEN [df.rows[i] EXCEPT ![target] = df.rows[i][source]]
            ELSE df.rows[i]]]

\* if "user_id" in df.columns: ... if "email" in df.columns: ...
\* elif "username" in df.columns: ... (lines 419-424)
PopulateUserId(df) ==
    IF ~HasColumn(df, "user_id") THEN df
    ELSE IF HasColumn(df, "email") THEN FillFrom(df, "user_id", "email")
    ELSE IF HasColumn(df, "username") THEN FillFrom(df, "user_id", "username")
    ELSE df

\* lines 427-431
PopulateUsername(df) ==
    IF HasColumn(df, "username") /\ HasColumn(df, "email")
    THEN [df EXCEPT !.rows =
            [i \in 1..Len(df.rows) |->
                IF IsNa(df.rows[i]["username"])
                THEN [df.rows[i] EXCEPT !["username"] = LocalPart(df.rows[i]["email"])]
                ELSE df.rows[i]]]
    ELSE df

\* lines 434-445
PopulateFullName(df) ==
    IF HasColumn(df, "full_name") /\ HasColumn(df, "first_name")
       /\ HasColumn(df, "last_name")
    THEN [df EXCEPT !.rows =
            [i \in 1..Len(df.rows) |->
                IF IsNa(df.rows[i]["full_name"])
                THEN [df.rows[i] EXCEPT !["full_name"] =
                         FullName(df.rows[i]["first_name"], df.rows[i]["last_name"])]
                ELSE df.rows[i]]]
    ELSE df

populate_user_fields(df) == PopulateFullName(PopulateUsername(PopulateUserId(df)))

\* Groups tables as save_sheets receives them: group_id absent or present
\* (of the form G<n> or not), with the name and the description of a variant.
PopulateGroupIds == {Null, "G1", "G2", "ADM"}

PopulateGroupsTables(max_rows) ==
    UNION {{[cols |-> {"group_id", "group_name", "description"},
             rows |-> [i \in 1..n |->
                          [group_id |-> ids[i], group_name |-> variant[1],
                           description |-> variant[2]]]] :
               ids \in [1..n -> PopulateGroupIds],
               variant \in {<<"Admins", Null>>, <<"Admins", "Group">>, <<Null, Null>>}} :
           n \in 0..max_rows}

\* Users tables: the three identifier columns read_sheets always returns,
\* the same without the email column, and one with the name columns.
PopulateUsersRows(columns) ==
    {r \in [columns -> {Null, "U1", "jdoe", "jdoe@example.com", "John", "Doe"}] :
        /\ "user_id" \in columns => r["user_id"] \in {Null, "U1"}
        /\ "username" \in columns => r["username"] \in {Null, "jdoe"}
        /\ "email" \in columns => r["email"] \in {Null, "jdoe@example.com"}
        /\ "full_name" \in columns => r["full_name"] = Null
        /\ "first_name" \in columns => r["first_name"] = "John"
        /\ "last_name" \in columns => r["last_name"] \in {Null, "Doe"}}

PopulateUsersColumns ==
    {{"user_id", "username", "email"},
     {"user_id", "username"},
     {"user_id", "username", "email", "full_name", "first_name", "last_name"}}

PopulateUsersTables(max_rows) ==
    UNION {{[cols |-> columns, rows |-> rows] :
               rows \in UNION {[1..n -> PopulateUsersRows(columns)] :
                                  n \in 0..max_rows}} :
           columns \in PopulateUsersColumns}

InitPopulate ==
    /\ IdleResolve
    /\ IdleJoin
    /\ IdleValidate
    /\ IdleRun
    /\ IdleRoles
    /\ IdleSchema
    /\ IdleSheets
    /\ IdleWalk
    /\ IdleOutput
    /\ IdleDirectory
    /\ pp_pc = "input"
    /\ \/ pp_sheet = "Groups" /\ pp_df \in PopulateGroupsTables(MaxPopulateRows)
       \/ pp_sheet = "Users" /\ pp_df \in PopulateUsersTables(MaxPopulateRows - 1)
    /\ pp_populated = EmptyFrame({})

\* processed_data["Groups"] = self._populate_group_fields(data["Groups"])
PopulateGroupFields ==
    /\ pp_pc = "input" /\ pp_sheet = "Groups"
    /\ pp_populated' = populate_group_fields(pp_df)
    /\ pp_pc' = "populated"
    /\ UNCHANGED <<pp_sheet, pp_df>>
    /\ UNCHANGED <<resolveVars, joinVars, validateVars, runVars, rolesVars,
                   schemaVars, sheetsVars, walkVars, outputVars, directoryVars>>

\* processed_data["Users"] = self._populate_user_fields(data["Users"])
PopulateUserFields ==
    /\ pp_pc = "input" /\ pp_sheet = "Users"
    /\ pp_populated' = populate_user_fields(pp_df)
    /\ pp_pc' = "populated"
    /\ UNCHANGED <<pp_sheet, pp_df>>
    /\ UNCHANGED <<resolveVars, joinVars, validateVars, runVars, rolesVars,
                   schemaVars, sheetsVars, walkVars, outputVars, directoryVars>>

NextPopulate == PopulateGroupFields \/ PopulateUserFields

SpecPopulate == InitPopulate /\ [][NextPopulate]_vars

\* The ids of the form G<n>.
GeneratedIds == {FormatGroupId(n) : n \in 1..10}

\* The rows of the populated table that had no id in the given column.
PopulatedRows == 1..Len(pp_df.rows)

HadNo(col) == {i \in PopulatedRows : IsNa(pp_df.rows[i][col])}

\* C25: after _populate_group_fields every row that had no group_id has an
\* id of the form G<n>, no assigned id equals a group_id already present in
\* the table, no two rows were assigned the same id, and the rows that had a
\* group_id keep it.
C25_GroupIdsAssignedWithoutCollision ==
    (pp_pc = "populated" /\ pp_sheet = "Groups") =>
        /\ Len(pp_populated.rows) = Len(pp_df.rows)
        /\ \A i \in HadNo("group_id") :
              /\ pp_populated.rows[i]["group_id"] \in GeneratedIds
              /\ \A j \in PopulatedRows :
                    pp_df.rows[j]["group_id"] # pp_populated.rows[i]["group_id"]
              /\ \A j \in HadNo("group_id") :
                    j # i => pp_populated.rows[j]["group_id"]
                                 # pp_populated.rows[i]["group_id"]
        /\ \A i \in PopulatedRows \ HadNo("group_id") :
              pp_populated.rows[i]["group_id"] = pp_df.rows[i]["group_id"]

\* G2 is taken: the two rows without an id get G1 and G3.
C25_Witness ==
    /\ pp_pc = "populated" /\ pp_sheet = "Groups"
    /\ Len(pp_df.rows) = 3
    /\ pp_df.rows[1]["group_id"] = Null
    /\ pp_df.rows[2]["group_id"] = "G2"
    /\ pp_df.rows[3]["group_id"] = Null
    /\ pp_populated.rows[1]["group_id"] = "G1"
    /\ pp_populated.rows[2]["group_id"] = "G2"
    /\ pp_populated.rows[3]["group_id"] = "G3"

\* The value of a column in a row, absent when the table has no such column.
CellOf(df, i, col) == IF HasColumn(df, col) THEN df.rows[i][col] ELSE Null

\* C26: after _populate_user_fields every row that had no user_id has the
\* user_id of its email when the email is present, otherwise of its username
\* when the username is present, so a row with any of the two never keeps an
\* absent user_id; the rows that had a user_id keep it.
C26_UserIdFromEmailThenUsername ==
    (pp_pc = "populated" /\ pp_sheet = "Users") =>
        /\ \A i \in HadNo("user_id") :
              /\ ~IsNa(CellOf(pp_df, i, "email"))
                    => pp_populated.rows[i]["user_id"] = pp_df.rows[i]["email"]
              /\ (IsNa(CellOf(pp_df, i, "email")) /\ ~IsNa(CellOf(pp_df, i, "username")))
                    => pp_populated.rows[i]["user_id"] = pp_df.rows[i]["username"]
        /\ \A i \in PopulatedRows \ HadNo("user_id") :
              pp_populated.rows[i]["user_id"] = pp_df.rows[i]["user_id"]

(***************************************************************************)
(* process_directory                                                       *)
(***************************************************************************)
MaxFiles == 4

\* How a call of process_ad_data can end: it returns 0, it returns 1 from
\* its exception handler, or the handler itself raises (AD_oracle.py:66-130).
ProcessAdDataOutcomes == {"returned 0", "returned 1", "raised"}

InitDirectory ==
    /\ IdleResolve
    /\ IdleJoin
    /\ IdleValidate
    /\ IdleRun
    /\ IdleRoles
    /\ IdleSchema
    /\ IdleSheets
    /\ IdleWalk
    /\ IdleOutput
    /\ IdlePopulate
    /\ dir_pc = "start"
    /\ dir_env \in [builtin_groups_file_exists : BOOLEAN]
    /\ excel_files \in 0..MaxFiles
    /\ dir_outcomes = <<>>
    /\ dir_status = -1

\* process_directory up to its loop (AD_oracle.py:147-168).
ProcessDirectory ==
    /\ dir_pc = "start"
    /\ IF ~dir_env.builtin_groups_file_exists \/ excel_files = 0
       THEN /\ dir_status' = 1
            /\ dir_pc' = "done"
       ELSE /\ dir_pc' = "files"
            /\ UNCHANGED dir_status
    /\ UNCHANGED <<dir_env, excel_files, dir_outcomes>>
    /\ UNCHANGED <<resolveVars, joinVars, validateVars, runVars, rolesVars,
                   schemaVars, sheetsVars, walkVars, outputVars, populateVars>>

\* One round of the loop: process_ad_data(...) inside try/except, its
\* return value dropped, an exception printed and the loop continued
\* (AD_oracle.py:171-181).
ProcessNextFile ==
    /\ dir_pc = "files"
    /\ Len(dir_outcomes) < excel_files
    /\ \E outcome \in ProcessAdDataOutcomes :
          dir_outcomes' = Append(dir_outcomes, outcome)
    /\ UNCHANGED <<dir_pc, dir_env, excel_files, dir_status>>
    /\ UNCHANGED <<resolveVars, joinVars, validateVars, runVars, rolesVars,
                   schemaVars, sheetsVars, walkVars, outputVars, populateVars>>

\* After the last file: return 0 (AD_oracle.py:183-185).
FinishDirectory ==
    /\ dir_pc = "files"
    /\ Len(dir_outcomes) = excel_files
    /\ dir_status' = 0
    /\ dir_pc' = "done"
    /\ UNCHANGED <<dir_env, excel_files, dir_outcomes>>
    /\ UNCHANGED <<resolveVars, joinVars, validateVars, runVars, rolesVars,
                   schemaVars, sheetsVars, walkVars, outputVars, populateVars>>

NextDirectory == ProcessDirectory \/ ProcessNextFile \/ FinishDirectory

SpecDirectory == InitDirectory /\ [][NextDirectory]_vars

\* The files whose processing failed.
FailedFiles == {i \in 1..Len(dir_outcomes) : dir_outcomes[i] # "returned 0"}

\* C27: process_directory returns 1 whenever the processing of at least one
\* file failed (process_ad_data returned 1 or raised) and 0 only when every
\* file was processed successfully; a failing file does not keep the
\* remaining files from being processed.
C27_DirectoryReportsFailure ==
    (dir_pc = "done" /\ dir_env.builtin_groups_file_exists /\ excel_files > 0) =>
        /\ Len(dir_outcomes) = excel_files
        /\ FailedFiles # {} => dir_status = 1
        /\ dir_status = 0 => FailedFiles = {}

(***************************************************************************)
(* resolve_group_roles on tables whose rows come in any order              *)
(***************************************************************************)
MaxOrderRows == 3

MaxOrderRoles == 2

OrderGroupIds == {"G1", "G2", "G3"}

\* The rows a hierarchy table is built from: every edge between two of the
\* groups, and one edge from a group to itself.
OrderEdgeRows ==
    {EdgeRow(e) : e \in {f \in OrderGroupIds \X OrderGroupIds : f[1] # f[2]}
                        \cup {<<"G3", "G3">>}}

OrderRoleRows == {[role_id |-> g] : g \in {"G1", "G2"}}

\* All sequences over S of length at most n.
SeqsUpTo(S, n) == UNION {[1..k -> S] : k \in 0..n}

InitOrder ==
    /\ IdleWalk
    /\ IdleOutput
    /\ IdlePopulate
    /\ IdleDirectory
    /\ IdleJoin
    /\ IdleValidate
    /\ IdleRun
    /\ IdleRoles
    /\ IdleSchema
    /\ IdleSheets
    /\ rs_pc = "input"
    /\ \E rows \in SeqsUpTo(OrderRoleRows, MaxOrderRoles) :
           roles_df = DataFrame(rows)
    /\ \E rows \in SeqsUpTo(OrderEdgeRows, MaxOrderRows) :
           group_groups_df = Sheet({"parent_group_id", "child_group_id"}, rows)
    /\ group_roles = Returned(EmptyFrame({}))
    /\ group_roles_again = Returned(EmptyFrame({}))

SpecOrder == InitOrder /\ [][NextResolve]_vars

\* The call on the tables that list each role and each edge once, in the
\* one order that depends on the sets alone.
CanonicalResolution ==
    resolve_group_roles(RolesFrame(RoleIdValues(roles_df)),
                        GroupGroupsFrame(EdgeSet(group_groups_df), FALSE))

\* C30: the closed group-role table depends on the sets of roles and of
\* hierarchy edges alone: whatever the order and the repetition of the rows
\* of the two tables, resolve_group_roles returns the (group_id, role_id)
\* pairs it returns for the tables that list each role and each edge once,
\* on acyclic and cyclic graphs alike.
C30_RowOrderIrrelevant ==
    rs_pc # "input" =>
        /\ group_roles.raised = CanonicalResolution.raised
        /\ PairsOf(group_roles.value) = PairsOf(CanonicalResolution.value)

\* A cyclic hierarchy given with a repeated row and in another order than
\* the canonical table, with roles to inherit.
C30_Witness ==
    /\ rs_pc = "resolved"
    /\ HasDuplicates(group_groups_df.rows)
    /\ ~Acyclic(EdgeSet(group_groups_df))
    /\ Cardinality(EdgeSet(group_groups_df)) >= 2
    /\ group_groups_df.rows[1] # GroupGroupsFrame(EdgeSet(group_groups_df), FALSE).rows[1]
    /\ HasDuplicates(roles_df.rows)
    /\ group_roles.raised = "none"
    /\ Cardinality(PairsOf(group_roles.value)) >= 2

====
